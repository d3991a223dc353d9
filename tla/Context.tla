------------------------------ MODULE Context ------------------------------
(***************************************************************************)
(* Entering and leaving the kernel: the timer interrupt, system calls,     *)
(* exceptions, and the context switch they perform                         *)
(* (indo-kernel/src/process/context_switch.rs, syscall/mod.rs, idt.rs),    *)
(* down to what is pushed on which stack and what each register holds.     *)
(*                                                                         *)
(* Handlers run with interrupts masked, so each is one step; it is written *)
(* as a composition of operators that map a machine to a machine, one for  *)
(* each stretch of its assembly.  Rust code runs on the handler's stack    *)
(* and clobbers the caller-saved registers; it is built without floating   *)
(* point, so it leaves the FPU alone.                                      *)
(*                                                                         *)
(* Abstractions.  Which Ready process runs next, and what wakes a blocked  *)
(* one, is the business of Scheduler.  The kernel stack of a process is    *)
(* named by its PID, and a machine word is a number that records where it  *)
(* came from.  What nobody will read again is dropped: words below a stack *)
(* pointer, PER_CPU.user_rsp after the return, all of a dead process.      *)
(* A program computes by replacing all of its registers.  The result of a  *)
(* call is 0, except the child's PID that fork returns.                    *)
(***************************************************************************)
EXTENDS Integers, Sequences, FiniteSets

CONSTANTS
  MaxPid,    \* the slots of the table are 0..MaxPid
  Calls,     \* the kinds of system calls that programs make
  Faults     \* the exceptions that programs raise

CallKinds == {"getpid", "copyout", "yield", "block", "exit", "reap", "fork",
              "kill", "exec", "execve"}
FaultKinds == {"cow", "bad", "gp", "breakpoint", "fatal"}

ASSUME ContextAssumption ==
  /\ MaxPid \in Nat /\ MaxPid >= 2
  /\ Calls \subseteq CallKinds
  /\ Faults \subseteq FaultKinds

Idle == 0
Users == 1..MaxPid
Pids == 0..MaxPid
NoPid == -1          \* current_pid = None; CURRENT_FPU_STATE = 0
Boot == MaxPid + 1   \* the boot code and its stack

(* The registers of a saved frame, from its lowest address upwards. *)
RAX == 1
RCX == 3
RDX == 4
RSI == 5
RDI == 6
R11 == 11
RIP == 16
CS == 17
RFLAGS == 18
RSP == 19
SS == 20
General == 1..15
CallerSaved == {RAX, RCX, RDX, RSI, RDI, 8, 9, 10, R11}

KernelCode == 8      \* 0x08
KernelData == 16     \* 0x10
UserCode == 27       \* 0x1B
UserData == 35       \* 0x23
InterruptsOn == 514  \* 0x202

(* Words, by where they come from. *)
Junk == 0
Return == 1                                  \* return address of a Rust call
Computed(p, i) == 100000 + 1000 * p + 16 * i
Entry(p) == 200000 + p                       \* where a program starts
UserStack(p) == 210000 + p                   \* its initial stack pointer
HandlerAddr(p) == 220000 + p                 \* its signal handler
FpuBuffer(p) == IF p = NoPid THEN 0 ELSE 230000 + p
Signum == 2

(* The word d below the top of the kernel stack of p, and back. *)
Top(p) == 1000 * (p + 1)
Owner(a) == ((a + 999) \div 1000) - 1
Depth(a) == Top(Owner(a)) - a

KernelPml4 == 100
Pml4(p) == IF p = Idle THEN KernelPml4 ELSE 100 + p
NewPml4(p) == 200 + p                        \* built by exec
FnInit == 0                                  \* FpuState::new()

VARIABLES
  m,      \* the machine: CPU, kernel stacks, process table, per-CPU data
  view    \* history: what each program believes its registers hold

vars == <<m, view>>

-----------------------------------------------------------------------------
(* The CPU *)

Mode(k) == IF k.r[CS] = UserCode THEN "user" ELSE "kernel"

Word(k, a) ==
  LET s == k.stack[Owner(a)]
  IN  IF Depth(a) \in DOMAIN s THEN s[Depth(a)] ELSE Junk

Store(k, a, v) ==
  IF Depth(a) \in DOMAIN k.stack[Owner(a)]
  THEN [k EXCEPT !.stack[Owner(a)][Depth(a)] = v] ELSE k

Push(k, ws) ==
  LET a == k.r[RSP] IN
  [k EXCEPT !.stack[Owner(a)] = SubSeq(@, 1, Depth(a)) \o ws,
            !.r[RSP] = @ - Len(ws)]

Pop(k, n) ==
  LET a == k.r[RSP] IN
  [k EXCEPT !.stack[Owner(a)] = SubSeq(@, 1, Depth(a) - n),
            !.r[RSP] = @ + n]

\* The frame at address a: 15 registers and what iretq takes.
FrameAt(k, a) == [i \in 1..20 |-> Word(k, a + i - 1)]

\* Delivery through an interrupt gate: the frame goes to RSP0 when the CPU was in
\* user mode and to the current stack otherwise; err is the error code, if any.
Interrupt(k, err) ==
  LET saved == <<k.r[SS], k.r[RSP], k.r[RFLAGS], k.r[CS], k.r[RIP]>>
      at == IF Mode(k) = "user" THEN k.rsp0 ELSE k.r[RSP]
  IN  Push([k EXCEPT !.r = [@ EXCEPT ![RSP] = at, ![CS] = KernelCode,
                                     ![SS] = KernelData, ![RIP] = Junk]],
           saved \o err)

iretq(k) ==
  LET a == k.r[RSP]
      popped == Pop(k, 5)
      back == [popped EXCEPT !.r =
                 [i \in 1..20 |-> IF i >= RIP THEN Word(k, a + i - RIP) ELSE @[i]]]
  IN  IF Mode(back) = "user" THEN [back EXCEPT !.stack[Owner(a)] = <<>>, !.user_rsp = 0]
      ELSE back

\* The syscall instruction with the MSRs of syscall::init: RCX and R11 take RIP
\* and RFLAGS, the selectors come from STAR, the stack stays the user's.
syscall(k) ==
  [k EXCEPT !.r = [@ EXCEPT ![RCX] = k.r[RIP], ![R11] = k.r[RFLAGS],
                            ![CS] = KernelCode, ![SS] = KernelData, ![RIP] = Junk]]

swapgs(k) == [k EXCEPT !.gs = k.kernel_gs, !.kernel_gs = k.gs]

push_all(k) == Push(k, [i \in 1..15 |-> k.r[16 - i]])
pop_all(k) ==
  LET a == k.r[RSP]
      popped == Pop(k, 15)
  IN  [popped EXCEPT !.r = [i \in 1..20 |-> IF i \in General THEN Word(k, a + i - 1) ELSE @[i]]]

\* A call into Rust code that returns v.
Returned(k, v) ==
  [k EXCEPT !.r = [i \in 1..20 |->
     IF i = RAX THEN v ELSE IF i \in CallerSaved THEN Junk ELSE @[i]]]

\* Mutant: the registers of the FPU are not stored.
fxsave_Skipped(k) == [k EXCEPT !.r[RAX] = FpuBuffer(k.CURRENT_FPU_STATE)]

\* lea rax, [CURRENT_FPU_STATE]; mov rax, [rax]; test; jz; fxsave [rax]
fxsave(k) ==
  LET p == k.CURRENT_FPU_STATE
      loaded == [k EXCEPT !.r[RAX] = FpuBuffer(p)]
  IN  IF p = NoPid THEN loaded ELSE [loaded EXCEPT !.proc[p].fpu_state = k.fpu]

\* push rax; ...; fxrstor [rax]; pop rax
fxrstor(k) ==
  IF k.CURRENT_FPU_STATE = NoPid THEN k
  ELSE [k EXCEPT !.fpu = k.proc[k.CURRENT_FPU_STATE].fpu_state]

\* The write to the EOI register of the local APIC.
send_eoi(k) == [k EXCEPT !.in_service = FALSE]

Halt(k) == [k EXCEPT !.halted = TRUE]

-----------------------------------------------------------------------------
(* Processes *)

NewFrame(p) ==
  [i \in 1..20 |->
     CASE i = RIP -> Entry(p)
       [] i = CS -> IF p = Idle THEN KernelCode ELSE UserCode
       [] i = RFLAGS -> InterruptsOn
       [] i = RSP -> IF p = Idle THEN Top(p) ELSE UserStack(p)
       [] i = SS -> IF p = Idle THEN KernelData ELSE UserData
       [] OTHER -> 0]

\* Process::new_kernel and new_user, and the frames they set up.
NewProcess(p, state) ==
  [state |-> state, stack_pointer |-> Top(p) - 20, pml4_phys |-> Pml4(p),
   saved_cr3 |-> 0, pending |-> FALSE, user_rsp |-> UserStack(p), fpu_state |-> FnInit]

-----------------------------------------------------------------------------
(* The scheduler, as far as the switch is concerned *)

Ready(k) == {p \in Users : k.proc[p].state = "Ready"}
FreeSlots(k) == {p \in Users : k.proc[p].state = "Empty"}
Least(S) == CHOOSE x \in S : \A y \in S : x <= y

find_next_ready(k, a) ==
  LET dist(p) == (p - a - 1) % (MaxPid + 1)
  IN  IF Ready(k) = {} THEN Idle
      ELSE CHOOSE p \in Ready(k) : \A q \in Ready(k) : dist(p) <= dist(q)

save_current_sp(k, sp) ==
  [k EXCEPT !.proc[k.current_pid] = [@ EXCEPT !.stack_pointer = sp, !.saved_cr3 = k.cr3]]

\* Scheduler::switch_next and switch_next_force: a Running process goes back to
\* Ready, a Blocked or Zombie one stays what it is.
switch_next(k) ==
  LET old == k.current_pid
      a == [k EXCEPT !.proc[old].state = IF @ = "Running" THEN "Ready" ELSE @]
      new == find_next_ready(a, old)
  IN  [a EXCEPT !.proc[new].state = "Running", !.current_pid = new]

\* Scheduler::deliver_signal for a user handler: the saved frame of the process
\* about to run is redirected (its stack pointer by one word, 8 bytes).
deliver_signal(k) ==
  LET p == k.current_pid
      sp == k.proc[p].stack_pointer
      a == Store(k, sp + RIP - 1, HandlerAddr(p))
      b == Store(a, sp + RSP - 1, Word(k, sp + RSP - 1) - 8)
      c == Store(b, sp + RDI - 1, Signum)
  IN  IF p = Idle \/ ~k.proc[p].pending THEN k
      ELSE [c EXCEPT !.proc[p].pending = FALSE]

\* Mutant: the stack of the next system call is forgotten.
Install_NoKernelRsp(k) ==
  LET p == k.proc[k.current_pid]
  IN  [k EXCEPT !.cr3 = IF p.saved_cr3 # 0 THEN p.saved_cr3 ELSE p.pml4_phys,
                !.rsp0 = Top(k.current_pid),
                !.CURRENT_FPU_STATE = k.current_pid]

\* What schedule, schedule_force and kill_process do for the incoming process:
\* CR3, TSS.RSP0, PER_CPU.kernel_rsp and the FPU buffer.
Install(k) ==
  LET p == k.proc[k.current_pid]
  IN  [k EXCEPT !.cr3 = IF p.saved_cr3 # 0 THEN p.saved_cr3 ELSE p.pml4_phys,
                !.rsp0 = Top(k.current_pid), !.kernel_rsp = Top(k.current_pid),
                !.CURRENT_FPU_STATE = k.current_pid]

\* The saved stack pointer of the process that now runs, returned in RAX.
NewSp(k) == Returned(k, k.proc[k.current_pid].stack_pointer)

\* The dead process gives up its page tables (and its stack, see Scheduler).
Bury(k, p) ==
  [k EXCEPT !.proc[p] = [NewProcess(p, "Zombie") EXCEPT !.pml4_phys = 0], !.stack[p] = <<>>]

\* schedule() before any process has run: CR3 is left to the assembly, which
\* changes it once it is off the boot stack.
first_dispatch(k) ==
  LET first == find_next_ready(k, Idle)
      pml4 == k.proc[first].pml4_phys
      a == [k EXCEPT !.proc[first].state = "Running", !.current_pid = first,
                     !.DEFERRED_CR3 = IF k.cr3 # pml4 THEN pml4 ELSE @]
  IN  NewSp([a EXCEPT !.rsp0 = Top(first), !.kernel_rsp = Top(first),
                      !.CURRENT_FPU_STATE = first])

\* schedule(saved_rsp): the tick wakes some sleepers, and switches when the
\* quantum has expired.
schedule(k, woken, expired) ==
  LET a == save_current_sp(k, k.r[RSP])
      b == [a EXCEPT !.proc = [p \in Pids |->
              IF p \in woken THEN [@[p] EXCEPT !.state = "Ready"] ELSE @[p]]]
      c == IF expired THEN deliver_signal(switch_next(b)) ELSE b
  IN  IF k.current_pid = NoPid THEN first_dispatch(k) ELSE NewSp(Install(c))

\* schedule_force(saved_rsp): switches whatever the quantum.
schedule_force(k) ==
  LET old == k.current_pid
      a == deliver_signal(switch_next(save_current_sp(k, k.r[RSP])))
      b == Install(a)
  IN  NewSp(IF k.proc[old].state = "Zombie" THEN Bury(b, old) ELSE b)

\* kill_process(): the faulting process dies where it stands, nothing is saved.
kill_process(k) ==
  LET old == k.current_pid
      a == [k EXCEPT !.proc[old].state = "Zombie"]
  IN  NewSp(Bury(Install(switch_next(a)), old))

-----------------------------------------------------------------------------
(* The handlers *)

\* mov r12, rax; EOI; mov rsp, r12
ontoStack(k) == [send_eoi(k) EXCEPT !.r[RSP] = k.r[RAX]]

deferred_cr3(k) ==
  IF k.DEFERRED_CR3 = 0 THEN k
  ELSE [k EXCEPT !.cr3 = k.DEFERRED_CR3, !.DEFERRED_CR3 = 0]

timer_interrupt_handler(k, woken, expired) ==
  LET a == push_all(fxsave(Interrupt(k, <<>>)))
      b == deferred_cr3(ontoStack(schedule(a, woken, expired)))
  IN  iretq(fxrstor(pop_all(b)))

\* Handlers with the x86-interrupt ABI save and restore what they use; "eoi" is
\* what dispatch() does after the registered handler.
x86_interrupt(k) == iretq(pop_all(Returned(push_all(Interrupt(k, <<>>)), Junk)))
dispatch(k) == send_eoi(x86_interrupt(k))
breakpoint_handler(k) == x86_interrupt(k)
fatal_handler(k) == Halt(Interrupt(k, <<>>))

\* The selector that page_fault_handler and general_protection_fault_handler read
\* at [rsp + 136], above 15 registers, the error code and RIP.
FaultCs(k) == Word(k, k.r[RSP] + 17)

\* kind "cow": handle_cow_fault succeeds and the instruction is retried.
page_fault_handler(k, kind) ==
  LET a == push_all(Interrupt(k, <<Junk>>))
  IN  CASE kind = "cow" -> iretq(Pop(pop_all(Returned(a, 2)), 1))
        [] kind # "cow" /\ FaultCs(a) = UserCode ->
             iretq(fxrstor(pop_all(ontoStack(kill_process(a)))))
        [] OTHER -> Halt(a)

\* gp_return_to_user restores the general registers only.
general_protection_fault_handler(k) ==
  LET a == push_all(Interrupt(k, <<Junk>>))
  IN  IF FaultCs(a) = UserCode THEN iretq(pop_all(ontoStack(kill_process(a)))) ELSE Halt(a)

-----------------------------------------------------------------------------
(* System calls, on the stack of the caller: the machine they leave has the  *)
(* result in RAX.  regs is the address of the saved registers.               *)

set_force_switch(k) == [k EXCEPT !.force_switch = TRUE]
Becomes(k, state) == [k EXCEPT !.proc[k.current_pid].state = state]

\* Copying into a page that fork shared: the kernel itself takes the fault.
Copyout(k) == Returned(page_fault_handler(k, "cow"), 0)

\* The child's frame, at the top of its new stack, is made of the caller's saved
\* registers and of the stack pointer in PER_CPU.
\* Mutant (the first): the stack pointer comes from the process.
ForkedFrame_UserRsp(k, regs) ==
  [i \in 1..20 |->
     CASE i = RAX -> 0
       [] i = RIP -> Word(k, regs + RCX - 1)
       [] i = CS -> UserCode
       [] i = RFLAGS -> Word(k, regs + R11 - 1)
       [] i = RSP -> k.proc[k.current_pid].user_rsp
       [] i = SS -> UserData
       [] OTHER -> Word(k, regs + i - 1)]
ForkedFrame(k, regs) ==
  [i \in 1..20 |->
     CASE i = RAX -> 0
       [] i = RIP -> Word(k, regs + RCX - 1)
       [] i = CS -> UserCode
       [] i = RFLAGS -> Word(k, regs + R11 - 1)
       [] i = RSP -> k.user_rsp
       [] i = SS -> UserData
       [] OTHER -> Word(k, regs + i - 1)]

\* The FPU buffer of the caller is copied, which is what the last switch saved.
sys_fork(k, regs) ==
  LET c == Least(FreeSlots(k))
      frame == ForkedFrame(k, regs)
  IN  IF FreeSlots(k) = {} THEN Returned(k, Junk)
      ELSE Returned([k EXCEPT
             !.stack[c] = [i \in 1..20 |-> frame[21 - i]],
             !.proc[c] = [state |-> "Ready", stack_pointer |-> Top(c) - 20,
                          pml4_phys |-> Pml4(c), saved_cr3 |-> 0, pending |-> FALSE,
                          user_rsp |-> 0,
                          fpu_state |-> k.proc[k.current_pid].fpu_state]], c)

\* The words exec writes into the frame at proc.stack_pointer: the five that
\* iretq takes; sys_exec also RCX, sys_execve also RDI and RSI.
ExecFrame(k, p, ws) ==
  LET sp == k.proc[p].stack_pointer
      written == <<[i |-> RIP, v |-> Entry(p)], [i |-> CS, v |-> UserCode],
                   [i |-> RFLAGS, v |-> InterruptsOn], [i |-> RSP, v |-> UserStack(p)],
                   [i |-> SS, v |-> UserData]>> \o ws
      st[n \in 0..Len(written)] ==
        IF n = 0 THEN k ELSE Store(st[n - 1], sp + written[n].i - 1, written[n].v)
  IN  st[Len(written)]

OtherPml4(p, pml4) == IF pml4 = Pml4(p) THEN NewPml4(p) ELSE Pml4(p)

sys_exec(k) ==
  LET p == k.current_pid
      new == OtherPml4(p, k.proc[p].pml4_phys)
      a == ExecFrame(k, p, <<[i |-> RCX, v |-> Entry(p)]>>)
  IN  Returned([a EXCEPT !.proc[p] = [@ EXCEPT !.pml4_phys = new, !.saved_cr3 = 0,
                                               !.user_rsp = UserStack(p)],
                         !.cr3 = new], 0)

sys_execve(k) ==
  LET p == k.current_pid
      new == OtherPml4(p, k.proc[p].pml4_phys)
      a == ExecFrame(k, p, <<[i |-> RDI, v |-> 0], [i |-> RSI, v |-> UserStack(p)]>>)
  IN  Returned([a EXCEPT !.proc[p] = [@ EXCEPT !.pml4_phys = new, !.user_rsp = UserStack(p)]], 0)

\* call dispatch: the return address is on the stack while the call runs, the
\* result goes to the saved RAX.  A return to anything else is a kernel fault.
syscall_dispatch(k, call, arg) ==
  LET regs == k.r[RSP]
      a == Push(k, <<Return>>)
      b == CASE call = "getpid" -> Returned(a, 0)
             [] call = "copyout" -> Copyout(a)
             [] call = "yield" -> Returned(set_force_switch(a), 0)
             [] call = "block" -> Returned(set_force_switch(Becomes(a, "Blocked")), 0)
             [] call = "exit" -> Returned(set_force_switch(Becomes(a, "Zombie")), 0)
             [] call = "reap" -> Returned([a EXCEPT !.proc[arg] = NewProcess(arg, "Empty")], 0)
             [] call = "kill" -> Returned([a EXCEPT !.proc[arg].pending = TRUE], 0)
             [] call = "fork" -> sys_fork(a, regs)
             [] call = "exec" -> sys_exec(a)
             [] call = "execve" -> sys_execve(a)
      c == Store(b, regs, b.r[RAX])
  IN  IF Word(c, c.r[RSP]) = Return THEN Pop(c, 1) ELSE Halt(c)

\* The force_switch path: a frame like the timer's is built below the saved
\* registers, from them.
force_return(k) ==
  LET a == fxsave([k EXCEPT !.force_switch = FALSE])
      f == [i \in General |-> Word(a, a.r[RSP] + i - 1)]
      b == Push(a, <<UserData, a.user_rsp, f[R11], UserCode, f[RCX]>>
                     \o [i \in General |-> f[16 - i]])
  IN  iretq(swapgs(fxrstor(pop_all(ontoStack(schedule_force(b))))))

normal_return(k) ==
  LET a == pop_all(k)
      b == Push(a, <<a.r[RAX], UserData, a.user_rsp, a.r[R11], UserCode, a.r[RCX]>>)
  IN  iretq(swapgs(b))

\* gs:[n] reaches PER_CPU only through the kernel's GS base.
syscall_entry(k, call, arg) ==
  LET a == swapgs(syscall(k))
      b == push_all([a EXCEPT !.user_rsp = a.r[RSP], !.r[RSP] = a.kernel_rsp])
      c == syscall_dispatch(b, call, arg)
  IN  IF a.gs # "per_cpu" THEN Halt(a)
      ELSE IF c.halted THEN c
      ELSE IF c.force_switch THEN force_return(c) ELSE normal_return(c)

-----------------------------------------------------------------------------
(* Behaviour *)

Live == {p \in Users : m.proc[p].state \in {"Ready", "Running", "Blocked"}}

NewView(p) == [r |-> NewFrame(p), fpu |-> FnInit, sure |-> TRUE]

\* start_scheduler: the boot code waits for the first tick with two programs and
\* the idle process in the table.
Init ==
  /\ m = [r |-> [i \in 1..20 |-> CASE i = CS -> KernelCode [] i = SS -> KernelData
                                   [] i = RSP -> Top(Boot) [] OTHER -> Junk],
          fpu |-> FnInit, cr3 |-> KernelPml4, gs |-> "user", kernel_gs |-> "per_cpu",
          in_service |-> FALSE,
          stack |-> [p \in Pids \cup {Boot} |->
                       IF p \in {Idle, 1, 2} THEN [i \in 1..20 |-> NewFrame(p)[21 - i]]
                       ELSE <<>>],
          proc |-> [p \in Pids |->
                      NewProcess(p, IF p \in {Idle, 1, 2} THEN "Ready" ELSE "Empty")],
          current_pid |-> NoPid, rsp0 |-> 0, CURRENT_FPU_STATE |-> NoPid,
          DEFERRED_CR3 |-> 0, user_rsp |-> 0, kernel_rsp |-> 0,
          force_switch |-> FALSE, halted |-> FALSE]
  /\ view = [p \in Users |-> NewView(p)]

\* Programs run in user mode until something interrupts them.
Running == ~m.halted /\ Mode(m) = "user"

Compute ==
  /\ Running
  /\ LET p == m.current_pid
         r == [i \in 1..20 |-> IF i \in {CS, SS} THEN m.r[i] ELSE Computed(p, i)]
     IN  /\ m' = [m EXCEPT !.r = r, !.fpu = Computed(p, 0)]
         /\ view' = [view EXCEPT ![p] = [r |-> r, fpu |-> Computed(p, 0), sure |-> TRUE]]

\* What a signal handler finds: one word less of stack, the signal in RDI.
Signalled(v, p) ==
  [v EXCEPT !.r = [@ EXCEPT ![RIP] = HandlerAddr(p), ![RSP] = @ - 8, ![RDI] = Signum]]

\* The programs whose pending signal a step has turned into a handler call.
Delivered == {p \in Live : m.proc[p].pending /\ ~m'.proc[p].pending}
After(vs) ==
  [p \in Users |-> CASE p \in Delivered -> Signalled(vs[p], p)
                     [] p \notin Live' -> NewView(p)
                     [] OTHER -> vs[p]]

timer ==
  /\ ~m.halted
  /\ ~m.in_service
  /\ \E woken \in SUBSET {p \in Users : m.proc[p].state = "Blocked"}, expired \in BOOLEAN :
       m' = timer_interrupt_handler([m EXCEPT !.in_service = TRUE], woken, expired)
  /\ view' = After(view)

irq ==
  /\ ~m.halted
  /\ ~m.in_service
  /\ m' = dispatch([m EXCEPT !.in_service = TRUE])
  /\ UNCHANGED view

\* Preconditions of the calls that concern another process.  Bounds: a program
\* computes between two calls, and is signalled only outside its handler.
MayCall(call, arg) ==
  CASE call = "reap" -> m.proc[arg].state = "Zombie"
    [] call = "kill" -> arg \in Live /\ ~m.proc[arg].pending /\ view[arg].r[RIP] # HandlerAddr(arg)
    [] OTHER -> arg = m.current_pid

\* What the caller finds on return: RCX and R11 are gone, RAX is the result.
Called(v, p) ==
  [v EXCEPT !.r = [@ EXCEPT ![RCX] = v.r[RIP], ![R11] = v.r[RFLAGS],
                            ![RAX] = IF m'.current_pid = p THEN m'.r[RAX]
                                     ELSE Word(m', m'.proc[p].stack_pointer)]]

Replaced(v, p) == [v EXCEPT !.r = [@ EXCEPT ![RIP] = Entry(p), ![RSP] = UserStack(p)]]

sys(call, arg) ==
  /\ Running
  /\ MayCall(call, arg)
  /\ view[m.current_pid].r[RCX] # view[m.current_pid].r[RIP]
  /\ m' = syscall_entry(m, call, arg)
  /\ LET p == m.current_pid
         called == [view EXCEPT ![p] = Called(@, p)]
         child == Least(FreeSlots(m))
         after == CASE call = "fork" /\ FreeSlots(m) # {} ->
                         [called EXCEPT ![child] =
                            [r |-> [called[p].r EXCEPT ![RAX] = 0],
                             fpu |-> m.proc[p].fpu_state,
                             sure |-> view[p].sure /\ m.proc[p].fpu_state = view[p].fpu]]
                    [] call \in {"exec", "execve"} -> [called EXCEPT ![p] = Replaced(@, p)]
                    [] OTHER -> called
     IN  view' = After(after)

fault(kind) ==
  /\ Running
  /\ m' = CASE kind \in {"cow", "bad"} -> page_fault_handler(m, kind)
            [] kind = "gp" -> general_protection_fault_handler(m)
            [] kind = "breakpoint" -> breakpoint_handler(m)
            [] kind = "fatal" -> fatal_handler(m)
  /\ view' = After(IF kind = "gp" /\ m'.current_pid \in Users
                   THEN [view EXCEPT ![m'.current_pid].sure = FALSE] ELSE view)

Next ==
  \/ Compute
  \/ timer
  \/ irq
  \/ \E call \in Calls, arg \in Users : sys(call, arg)
  \/ \E kind \in Faults : fault(kind)

Spec == Init /\ [][Next]_vars

-----------------------------------------------------------------------------
(* Properties *)

\* The registers p will find when it next runs.
RegistersOf(p) == IF p = m.current_pid THEN m.r ELSE FrameAt(m, m.proc[p].stack_pointer)

\* Interrupts, system calls, faults and switches in any order give every program
\* back the registers it left: all the general ones except RAX, its instruction
\* and stack pointers, its flags and the user selectors.  The frames of the timer,
\* of the forced switch, of fork and of a new process must agree on one layout.
ContextKept ==
  ~m.halted => \A p \in Live : \A i \in (1..20) \ {RAX} : RegistersOf(p)[i] = view[p].r[i]

\* RAX too: "Save current process's registers" (timer_interrupt_handler).
RaxKept == ~m.halted => \A p \in Live : RegistersOf(p)[RAX] = view[p].r[RAX]

\* FPU registers survive switches between programs that use them: fxsave before
\* the pointer moves, fxrstor after.  Left out: a program resumed by
\* gp_return_to_user and the child of a fork whose parent's buffer is stale.
FpuKept ==
  ~m.halted => \A p \in Live : view[p].sure =>
    view[p].fpu = IF p = m.current_pid THEN m.fpu ELSE m.proc[p].fpu_state

\* Whenever a program or the idle loop runs, the next entry into the kernel finds
\* what it needs: the kernel's GS base is the one swapgs brings in, TSS.RSP0 and
\* PER_CPU.kernel_rsp are the stack of the current process, CR3 holds its page
\* tables, the FPU pointer its buffer, and no request or interrupt is left over.
EntryReady ==
  LET p == m.current_pid IN
  ~m.halted /\ p # NoPid =>
    /\ m.gs = "user" /\ m.kernel_gs = "per_cpu"
    /\ m.rsp0 = Top(p) /\ m.kernel_rsp = Top(p)
    /\ m.cr3 = m.proc[p].pml4_phys
    /\ m.CURRENT_FPU_STATE = p
    /\ ~m.force_switch /\ m.DEFERRED_CR3 = 0 /\ ~m.in_service

=============================================================================
