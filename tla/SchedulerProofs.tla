-------------------------- MODULE SchedulerProofs --------------------------
(***************************************************************************)
(* Proofs about Scheduler: the type invariant, that no kernel stack is     *)
(* owned or freed twice, who is on the CPU, on which stack, and which      *)
(* wake-ups can reach whom, for every size of the process table, of the    *)
(* deferred-free list and of the heap and every workload.                  *)
(*                                                                         *)
(* Every operation on the process table is shown once to map tables to     *)
(* tables and to leave the kernel stacks where they are (lemmas ...Table); *)
(* the few steps that move a stack are then argued one by one.  For the    *)
(* CPU, most operations are gentle: each slot either stays as it is or is  *)
(* woken, stopped or ended, none starts to run and none starts to wait     *)
(* (relation Gentle, lemmas ...Gentle).  What is left is the context       *)
(* switch, the call that blocks, and the operations that make or remove a  *)
(* process.                                                                *)
(***************************************************************************)
EXTENDS MCProcesses, WellFoundedInduction, TLAPS

Table == [Pids -> Process]

\* The table qs holds the same kernel stacks as ps.
SameStacks(ps, qs) == \A p \in Pids : qs[p].kstack = ps[p].kstack

-----------------------------------------------------------------------------
(* Least elements *)

\* A nonempty set of naturals has the least element that Least chooses
\* (first free slot, first zombie child, lowest pending signal).
LEMMA LeastProperty ==
  ASSUME NEW S, S \subseteq Nat, S # {}
  PROVE  Least(S) \in S /\ \A y \in S : Least(S) <= y
<1> DEFINE Below == {ss \in Nat \X Nat : ss[1] < ss[2]}
<1>1. IsWellFoundedOn(Below, Nat)
  BY Zenon, NatLessThanWellFounded DEF OpToRel
<1>2. PICK x \in S : \A y \in S : ~(<<y, x>> \in Below)
  BY Zenon, <1>1, WFMin
<1>3. ASSUME NEW y \in S
      PROVE  x <= y
  <2>1. <<y, x>> \in Nat \X Nat /\ <<y, x>>[1] = y /\ <<y, x>>[2] = x
    BY Zenon
  <2>2. ~(y < x)
    BY Zenon, <1>2, <2>1
  <2> QED
    BY <2>2
<1> QED
  BY Zenon, <1>2, <1>3 DEF Least

\* The scan of find_next_ready ends at a slot of the table, and at a Ready one
\* unless it falls back to idle.
LEMMA FindNextReady ==
  ASSUME NEW ps, NEW a \in Pids
  PROVE  /\ find_next_ready(ps, a) \in Pids
         /\ find_next_ready(ps, a) # IdlePid => find_next_ready(ps, a) \in ReadyUsers(ps)
<1> DEFINE D == {Distance(a, p) : p \in ReadyUsers(ps)}
<1>0. MaxProcs \in Nat \ {0} /\ IdlePid \in Pids /\ UserPids \subseteq Pids
  BY SchedulerAssumption DEF Pids, IdlePid, UserPids
<1>1. \A p \in Pids : Distance(a, p) \in Nat
  BY <1>0 DEF Distance, Pids
<1>2. CASE ReadyUsers(ps) = {}
  BY Zenon, <1>0, <1>2 DEF find_next_ready
<1>3. CASE ReadyUsers(ps) # {}
  <2>1. D \subseteq Nat /\ D # {}
    BY Zenon, <1>0, <1>1, <1>3 DEF ReadyUsers
  <2>2. Least(D) \in D /\ \A y \in D : Least(D) <= y
    BY Zenon, <2>1, LeastProperty
  <2>3. \E p \in ReadyUsers(ps) : \A q \in ReadyUsers(ps) : Distance(a, p) <= Distance(a, q)
    BY Zenon, <2>2
  <2>4. find_next_ready(ps, a) \in ReadyUsers(ps)
    BY Zenon, <1>3, <2>3 DEF find_next_ready
  <2> QED
    BY Zenon, <2>4, <1>0 DEF ReadyUsers
<1> QED
  BY Zenon, <1>2, <1>3

-----------------------------------------------------------------------------
(* Processes *)

\* A process as Process::new_user builds it is well-typed.
LEMMA NewProcessType ==
  ASSUME NEW parent \in Pids \cup {NoPid}, NEW parent_gen \in Nat, NEW gen \in Nat,
         NEW pgid \in Nat, NEW k \in Stacks \cup {NoStack}
  PROVE  /\ NewProcess(parent, parent_gen, gen, pgid, k) \in Process
         /\ NewProcess(parent, parent_gen, gen, pgid, k).kstack = k
BY Zenon DEF NewProcess, Process, ProcessState, WakeReason, NoWake, Handler

\* A slot that holds no process is well-typed.
LEMMA EmptySlotType ==
  EmptySlot \in Process /\ EmptySlot.kstack = NoStack
<1> DEFINE n == NewProcess(NoPid, 0, 0, 0, NoStack)
<1>1. n \in Process /\ n.kstack = NoStack
  BY NewProcessType
<1> HIDE DEF n
<1>2. EmptySlot = [n EXCEPT !.state = "Empty"]
  BY Zenon DEF EmptySlot, n
<1> QED
  BY Zenon, <1>1, <1>2 DEF Process, ProcessState

\* Making a process Ready keeps its type.
LEMMA WokenType ==
  ASSUME NEW pr \in Process
  PROVE  Woken(pr) \in Process /\ Woken(pr).kstack = pr.kstack
BY Zenon DEF Woken, Process, ProcessState, WakeReason, NoWake

\* Changing the state of a process keeps its type.
LEMMA SetStateType ==
  ASSUME NEW pr \in Process, NEW st \in ProcessState
  PROVE  /\ [pr EXCEPT !.state = st] \in Process
         /\ [pr EXCEPT !.state = st].kstack = pr.kstack
BY Zenon DEF Process

\* Changing what a process waits for keeps its type.
LEMMA SetWakeType ==
  ASSUME NEW pr \in Process, NEW w \in WakeReason
  PROVE  /\ [pr EXCEPT !.wake = w] \in Process
         /\ [pr EXCEPT !.wake = w].kstack = pr.kstack
BY Zenon DEF Process

\* Stopping or ending a process keeps its type.
LEMMA SuspendType ==
  ASSUME NEW pr \in Process
  PROVE  Suspend(pr, SIGTSTP) \in Process /\ Suspend(pr, SIGTSTP).kstack = pr.kstack
BY Zenon DEF Suspend, Process, ProcessState, WakeReason, NoWake, SIGTSTP

-----------------------------------------------------------------------------
(* Operations on the process table *)

\* Replacing one process by another with the same kernel stack.
LEMMA UpdateTable ==
  ASSUME NEW ps \in Table, NEW p \in Pids, NEW pr \in Process, pr.kstack = ps[p].kstack
  PROVE  /\ [ps EXCEPT ![p] = pr] \in Table
         /\ SameStacks(ps, [ps EXCEPT ![p] = pr])
BY Zenon DEF Table, SameStacks

\* Assigning a state in the process table keeps every slot typed and every stack with
\* its owner.
LEMMA SetStateTable ==
  ASSUME NEW ps \in Table, NEW p \in Pids, NEW st \in ProcessState
  PROVE  /\ [ps EXCEPT ![p].state = st] \in Table
         /\ SameStacks(ps, [ps EXCEPT ![p].state = st])
<1>1. ps[p] \in Process
  BY Zenon DEF Table
<1> QED
  BY Zenon, <1>1, SetStateType, UpdateTable

\* Blocking a process moves no stack.
LEMMA BlockOnTable ==
  ASSUME NEW ps \in Table, NEW p \in Pids, NEW w \in WakeReason
  PROVE  BlockOn(ps, p, w) \in Table /\ SameStacks(ps, BlockOn(ps, p, w))
<1> DEFINE pr == [ps[p] EXCEPT !.state = "Blocked", !.wake = w]
<1>1. ps[p] \in Process
  BY Zenon DEF Table
<1>2. pr \in Process /\ pr.kstack = ps[p].kstack
  BY Zenon, <1>1 DEF Process, ProcessState
<1>3. BlockOn(ps, p, w) = [ps EXCEPT ![p] = pr]
  BY Zenon DEF BlockOn
<1> HIDE DEF pr
<1> QED
  BY Zenon, <1>2, <1>3, UpdateTable

\* Taking the CPU away from a process moves no stack.
LEMMA PreemptTable ==
  ASSUME NEW ps \in Table, NEW p \in Pids
  PROVE  Preempt(ps, p) \in Table /\ SameStacks(ps, Preempt(ps, p))
<1>1. CASE Preempt(ps, p) = [ps EXCEPT ![p].state = "Ready"]
  <2>1. "Ready" \in ProcessState
    BY Zenon DEF ProcessState
  <2>2. /\ [ps EXCEPT ![p].state = "Ready"] \in Table
        /\ SameStacks(ps, [ps EXCEPT ![p].state = "Ready"])
    BY Zenon, <2>1, SetStateTable
  <2> QED
    BY <1>1, <2>2, Zenon
<1>2. CASE Preempt(ps, p) = ps
  BY Zenon, <1>2 DEF SameStacks
<1> QED
  BY Zenon, <1>1, <1>2 DEF Preempt

\* Giving the CPU to a process moves no stack.
LEMMA DispatchTable ==
  ASSUME NEW ps \in Table, NEW p \in Pids
  PROVE  Dispatch(ps, p) \in Table /\ SameStacks(ps, Dispatch(ps, p))
BY Zenon, SetStateTable DEF Dispatch, ProcessState

\* The default action of a signal moves no stack: what it takes from the process is
\* the CPU, and the stack waits for the reaper.
LEMMA DefaultActionTable ==
  ASSUME NEW ps \in Table, NEW p \in Pids, NEW s
  PROVE  DefaultAction(ps, p, s) \in Table /\ SameStacks(ps, DefaultAction(ps, p, s))
<1>1. ps[p] \in Process
  BY Zenon DEF Table
<1>2. CASE s = SIGTSTP
  <2>1. DefaultAction(ps, p, s) = [ps EXCEPT ![p] = Suspend(ps[p], SIGTSTP)]
    BY <1>2 DEF DefaultAction, SIGTSTP, SIGCONT, SIGSTOP
  <2>2. /\ Suspend(ps[p], SIGTSTP) \in Process
        /\ Suspend(ps[p], SIGTSTP).kstack = ps[p].kstack
    BY Zenon, <1>1, SuspendType
  <2> QED
    BY Zenon, <2>1, <2>2, UpdateTable
<1>3. CASE s \in {SIGCONT, SIGSTOP}
  BY <1>3 DEF DefaultAction, SIGTSTP, SIGCONT, SIGSTOP, SameStacks
<1>4. CASE s \notin {SIGTSTP, SIGCONT, SIGSTOP}
  <2>1. DefaultAction(ps, p, s) = [ps EXCEPT ![p].state = "Zombie"]
    BY Zenon, <1>4 DEF DefaultAction
  <2>2. "Zombie" \in ProcessState
    BY Zenon DEF ProcessState
  <2>3. /\ [ps EXCEPT ![p].state = "Zombie"] \in Table
        /\ SameStacks(ps, [ps EXCEPT ![p].state = "Zombie"])
    BY Zenon, <2>2, SetStateTable
  <2> QED
    BY <2>1, <2>3, Zenon
<1> QED
  BY Zenon, <1>2, <1>3, <1>4

\* Waking a waiting parent moves no stack.
LEMMA WakeParentTable ==
  ASSUME NEW ps \in Table, NEW p \in Pids
  PROVE  WakeParent(ps, p) \in Table /\ SameStacks(ps, WakeParent(ps, p))
<1> DEFINE par == ps[p].parent
<1>1. par \in Pids \cup {NoPid}
  BY Zenon DEF Table, Process
<1>2. CASE WakeParent(ps, p) = ps
  BY Zenon, <1>2 DEF SameStacks
<1>3. CASE par # NoPid /\ WakeParent(ps, p) = [ps EXCEPT ![par] = Woken(ps[par])]
  <2>1. par \in Pids /\ ps[par] \in Process
    BY Zenon, <1>1, <1>3 DEF Table
  <2>2. Woken(ps[par]) \in Process /\ Woken(ps[par]).kstack = ps[par].kstack
    BY Zenon, <2>1, WokenType
  <2> HIDE DEF par
  <2> QED
    BY Zenon, <1>3, <2>1, <2>2, UpdateTable
<1> QED
  BY Zenon, <1>2, <1>3 DEF WakeParent

\* deliver_signal moves no stack.
LEMMA DeliverSignalTable ==
  ASSUME NEW ps \in Table, NEW p \in Pids, NEW rspOk \in BOOLEAN
  PROVE  deliver_signal(ps, p, rspOk) \in Table /\ SameStacks(ps, deliver_signal(ps, p, rspOk))
<1> DEFINE sig == Least(ps[p].pending)
           pr == [ps[p] EXCEPT !.pending = ps[p].pending \ {sig}]
           cleared == [ps EXCEPT ![p].pending = @ \ {sig}]
           acted == DefaultAction(cleared, p, sig)
<1>1. cleared \in Table /\ SameStacks(ps, cleared)
  <2>1. ps[p] \in Process
    BY Zenon DEF Table
  <2>2. pr \in Process /\ pr.kstack = ps[p].kstack
    BY Zenon, <2>1 DEF Process
  <2>3. cleared = [ps EXCEPT ![p] = pr]
    BY Zenon
  <2> HIDE DEF pr, cleared
  <2> QED
    BY Zenon, <2>2, <2>3, UpdateTable
<1> HIDE DEF cleared, sig
<1>2. acted \in Table /\ SameStacks(cleared, acted)
  BY Zenon, <1>1, DefaultActionTable
<1> HIDE DEF acted
<1> DEFINE woken == WakeParent(acted, p)
           zombied == [cleared EXCEPT ![p].state = "Zombie"]
<1>3. woken \in Table /\ SameStacks(acted, woken)
  BY Zenon, <1>2, WakeParentTable
<1>4. zombied \in Table /\ SameStacks(cleared, zombied)
  <2>1. "Zombie" \in ProcessState
    BY Zenon DEF ProcessState
  <2> QED
    BY Zenon, <1>1, <2>1, SetStateTable
<1>5. deliver_signal(ps, p, rspOk) \in {ps, cleared, woken, zombied}
  BY Zenon DEF deliver_signal, cleared, acted, sig
<1> HIDE DEF woken, zombied
<1>6. SameStacks(ps, ps) /\ SameStacks(ps, woken) /\ SameStacks(ps, zombied)
  BY Zenon, <1>1, <1>2, <1>3, <1>4 DEF SameStacks
<1> QED
  BY <1>1, <1>3, <1>4, <1>5, <1>6, Zenon

\* switch_next moves no stack.
LEMMA SwitchNextTable ==
  ASSUME NEW ps \in Table, NEW rspOk \in BOOLEAN, current_pid \in Pids
  PROVE  /\ next_pid(ps) \in Pids
         /\ switch_next(ps, rspOk) \in Table
         /\ SameStacks(ps, switch_next(ps, rspOk))
<1> DEFINE a == Preempt(ps, current_pid)
           b == Dispatch(a, next_pid(ps))
<1>1. next_pid(ps) \in Pids
  BY Zenon, FindNextReady DEF next_pid
<1>2. a \in Table /\ SameStacks(ps, a)
  BY Zenon, PreemptTable
<1> HIDE DEF a
<1>3. b \in Table /\ SameStacks(a, b)
  BY Zenon, <1>1, <1>2, DispatchTable
<1>4. switch_next(ps, rspOk) = deliver_signal(b, next_pid(ps), rspOk)
  BY Zenon DEF switch_next, a
<1> HIDE DEF b
<1>5. deliver_signal(b, next_pid(ps), rspOk) \in Table
      /\ SameStacks(b, deliver_signal(b, next_pid(ps), rspOk))
  BY Zenon, <1>1, <1>3, DeliverSignalTable
<1> QED
  BY Zenon, <1>1, <1>2, <1>3, <1>4, <1>5 DEF SameStacks

\* Handing orphans to init moves no stack.
LEMMA ReparentTable ==
  ASSUME NEW ps \in Table, NEW old, INIT_PID \in Pids, generations \in [Pids -> Nat]
  PROVE  /\ reparent_orphans_to_init(ps, old) \in Table
         /\ SameStacks(ps, reparent_orphans_to_init(ps, old))
<1> DEFINE adopted(p) == [ps[p] EXCEPT !.parent = INIT_PID,
                                       !.parent_gen = generations[INIT_PID],
                                       !.orphaned = FALSE]
<1>1. ASSUME NEW p \in Pids
      PROVE  /\ ps[p] \in Process
             /\ adopted(p) \in Process /\ adopted(p).kstack = ps[p].kstack
  <2>1. ps[p] \in Process
    BY Zenon DEF Table
  <2> QED
    BY Zenon, <2>1 DEF Process
<1>2. reparent_orphans_to_init(ps, old) =
        [p \in Pids |-> IF IsSome(ps, p) /\ ps[p].parent = old THEN adopted(p) ELSE ps[p]]
  BY Zenon DEF reparent_orphans_to_init
<1> HIDE DEF adopted
<1> QED
  BY Zenon, <1>1, <1>2 DEF Table, SameStacks

\* Reaping empties slot c and leaves the other stacks where they are.
LEMMA ReapZombieTable ==
  ASSUME NEW ps \in Table, NEW c \in Pids
  PROVE  /\ reap_zombie(ps, c) \in Table
         /\ reap_zombie(ps, c)[c] = EmptySlot
         /\ \A p \in Pids \ {c} : reap_zombie(ps, c)[p].kstack = ps[p].kstack
<1> DEFINE left(p) == [ps[p] EXCEPT !.orphaned = TRUE]
<1>1. ASSUME NEW p \in Pids
      PROVE  /\ ps[p] \in Process
             /\ left(p) \in Process /\ left(p).kstack = ps[p].kstack
  <2>1. ps[p] \in Process
    BY Zenon DEF Table
  <2> QED
    BY Zenon, <2>1 DEF Process
<1>2. reap_zombie(ps, c) =
        [p \in Pids |-> IF p = c THEN EmptySlot
                        ELSE IF IsSome(ps, p) /\ ps[p].parent = c THEN left(p) ELSE ps[p]]
  BY Zenon DEF reap_zombie
<1> HIDE DEF left
<1> QED
  BY Zenon, <1>1, <1>2, EmptySlotType DEF Table

\* The tick's scan of the sleepers moves no stack.
LEMMA WakeSleepersTable ==
  ASSUME NEW ps \in Table
  PROVE  WakeSleepers(ps) \in Table /\ SameStacks(ps, WakeSleepers(ps))
<1> DEFINE dozing(p) == [ps[p] EXCEPT !.wake = Sleep(ps[p].wake.arg - 1)]
<1>1. ASSUME NEW p \in Pids
      PROVE  /\ ps[p] \in Process
             /\ Woken(ps[p]) \in Process /\ Woken(ps[p]).kstack = ps[p].kstack
             /\ ~(ps[p].wake.arg <= 1) =>
                  dozing(p) \in Process /\ dozing(p).kstack = ps[p].kstack
  <2>1. ps[p] \in Process
    BY Zenon DEF Table
  <2>2. ps[p].wake.arg \in Nat
    BY Zenon, <2>1 DEF Process, WakeReason
  <2>3. ~(ps[p].wake.arg <= 1) => Sleep(ps[p].wake.arg - 1) \in WakeReason
    BY <2>2 DEF Sleep, WakeReason
  <2> QED
    BY Zenon, <2>1, <2>3, WokenType, SetWakeType
<1>2. WakeSleepers(ps) =
        [p \in Pids |->
           IF ps[p].state = "Blocked" /\ ps[p].wake.kind = "Sleep"
           THEN IF ps[p].wake.arg <= 1 THEN Woken(ps[p]) ELSE dozing(p)
           ELSE ps[p]]
  BY Zenon DEF WakeSleepers
<1> HIDE DEF dozing
<1> QED
  BY Zenon, <1>1, <1>2 DEF Table, SameStacks

\* keyboard_wake moves no stack.
LEMMA KeyboardWakeTable ==
  ASSUME NEW ps \in Table
  PROVE  keyboard_wake(ps) \in Table /\ SameStacks(ps, keyboard_wake(ps))
<1>1. \A p \in Pids : ps[p] \in Process
  BY Zenon DEF Table
<1>2. \A p \in Pids : Woken(ps[p]) \in Process /\ Woken(ps[p]).kstack = ps[p].kstack
  BY Zenon, <1>1, WokenType
<1> QED
  BY Zenon, <1>1, <1>2 DEF keyboard_wake, Table, SameStacks

\* wake_wait_for_child moves no stack.
LEMMA WakeWaitForChildTable ==
  ASSUME NEW ps \in Table, NEW z
  PROVE  wake_wait_for_child(ps, z) \in Table /\ SameStacks(ps, wake_wait_for_child(ps, z))
<1>1. \A p \in Pids : ps[p] \in Process
  BY Zenon DEF Table
<1>2. \A p \in Pids : Woken(ps[p]) \in Process /\ Woken(ps[p]).kstack = ps[p].kstack
  BY Zenon, <1>1, WokenType
<1> QED
  BY Zenon, <1>1, <1>2 DEF wake_wait_for_child, Table, SameStacks

\* Waking the waiting parents of a signalled group moves no stack.
LEMMA WakeWaitersTable ==
  ASSUME NEW ps \in Table, NEW killed
  PROVE  WakeWaiters(ps, killed) \in Table /\ SameStacks(ps, WakeWaiters(ps, killed))
<1>1. \A p \in Pids : ps[p] \in Process
  BY Zenon DEF Table
<1>2. \A p \in Pids : Woken(ps[p]) \in Process /\ Woken(ps[p]).kstack = ps[p].kstack
  BY Zenon, <1>1, WokenType
<1> QED
  BY Zenon, <1>1, <1>2 DEF WakeWaiters, Table, SameStacks

\* Waking the readers after a signal character moves no stack.
LEMMA WakeReadersTable ==
  ASSUME NEW ps \in Table
  PROVE  WakeReaders(ps) \in Table /\ SameStacks(ps, WakeReaders(ps))
<1>1. \A p \in Pids : ps[p] \in Process
  BY Zenon DEF Table
<1>2. \A p \in Pids : Woken(ps[p]) \in Process /\ Woken(ps[p]).kstack = ps[p].kstack
  BY Zenon, <1>1, WokenType
<1> QED
  BY Zenon, <1>1, <1>2 DEF WakeReaders, Table, SameStacks

\* A signal character moves no stack.
LEMMA SendSignalTable ==
  ASSUME NEW ps \in Table, NEW s
  PROVE  send_signal_to_fg(ps, s) \in Table /\ SameStacks(ps, send_signal_to_fg(ps, s))
<1> DEFINE killed == IF s \in {SIGINT, SIGQUIT} THEN Targets(ps) ELSE {}
           a == SignalGroup(ps, s)
           b == WakeWaiters(a, killed)
<1>1. ASSUME NEW p \in Pids
      PROVE  /\ ps[p] \in Process
             /\ Suspend(ps[p], SIGTSTP) \in Process
             /\ Suspend(ps[p], SIGTSTP).kstack = ps[p].kstack
             /\ [ps[p] EXCEPT !.state = "Zombie"] \in Process
             /\ [ps[p] EXCEPT !.state = "Zombie"].kstack = ps[p].kstack
  <2>1. ps[p] \in Process /\ "Zombie" \in ProcessState
    BY Zenon DEF Table, ProcessState
  <2> QED
    BY Zenon, <2>1, SuspendType, SetStateType
<1>2. a \in Table /\ SameStacks(ps, a)
  BY Zenon, <1>1 DEF SignalGroup, Table, SameStacks
<1> HIDE DEF a, killed
<1>3. b \in Table /\ SameStacks(a, b)
  BY Zenon, <1>2, WakeWaitersTable
<1> HIDE DEF b
<1>4. WakeReaders(b) \in Table /\ SameStacks(b, WakeReaders(b))
  BY Zenon, <1>3, WakeReadersTable
<1>5. send_signal_to_fg(ps, s) = WakeReaders(b)
  BY Zenon DEF send_signal_to_fg, a, b, killed
<1> QED
  BY Zenon, <1>2, <1>3, <1>4, <1>5 DEF SameStacks

-----------------------------------------------------------------------------
(* Ownership of kernel stacks *)

\* StackOwnership, for table ps, deferred-free list d and allocated stacks A.
Owned(ps, d, A) ==
  /\ \A p, q \in Pids : p # q /\ ps[p].kstack # NoStack => ps[p].kstack # ps[q].kstack
  /\ \A i \in DOMAIN d, p \in Pids : d[i] # ps[p].kstack
  /\ \A i, j \in DOMAIN d : i # j => d[i] # d[j]
  /\ \A p \in Pids : ps[p].kstack \in A \cup {NoStack}
  /\ \A i \in DOMAIN d : d[i] \in A

\* The form of the invariant the lemmas work with is the checked one.
LEMMA OwnedIsStackOwnership ==
  StackOwnership <=> Owned(procs, deferred, allocated)
BY Zenon DEF StackOwnership, Owned

\* Ownership does not depend on anything but the stacks.
LEMMA OwnedSame ==
  ASSUME NEW ps, NEW qs, NEW d, NEW A, Owned(ps, d, A), SameStacks(ps, qs)
  PROVE  Owned(qs, d, A)
BY ZenonT(40) DEF Owned, SameStacks

\* A new process takes a stack that was not allocated.
LEMMA OwnedSpawn ==
  ASSUME NEW ps \in Table, NEW d, NEW A, Owned(ps, d, A),
         NEW c \in Pids, NEW k \in Stacks, k \notin A, NEW pr \in Process, pr.kstack = k
  PROVE  /\ [ps EXCEPT ![c] = pr] \in Table
         /\ Owned([ps EXCEPT ![c] = pr], d, A \cup {k})
<1> DEFINE qs == [ps EXCEPT ![c] = pr]
<1>1. qs \in Table /\ qs[c].kstack = k /\ \A p \in Pids \ {c} : qs[p].kstack = ps[p].kstack
  BY Zenon DEF Table
<1>2. k # NoStack
  BY SchedulerAssumption DEF Stacks, NoStack
<1> HIDE DEF qs
<1>3. Owned(qs, d, A \cup {k})
  BY <1>1, <1>2 DEF Owned
<1> QED
  BY Zenon, <1>1, <1>3 DEF qs

\* Queueing the stack of slot "old" moves it from the slot to the list.
LEMMA DeferFree ==
  ASSUME NEW ps \in Table, NEW old \in Pids, NEW A, Owned(ps, deferred, A),
         NEW k \in {NoStack, ps[old].kstack},
         deferred \in Seq(Stacks), halted \in BOOLEAN, defer_free(ps, old, k)
  PROVE  /\ procs' \in Table
         /\ deferred' \in Seq(Stacks)
         /\ halted' \in BOOLEAN
         /\ Owned(procs', deferred', A)
<1>1. CASE k = NoStack \/ ~(Len(deferred) < MaxDeferred)
  BY Zenon, <1>1 DEF defer_free
<1>2. CASE k # NoStack /\ Len(deferred) < MaxDeferred
  <2> DEFINE pr == [ps[old] EXCEPT !.kstack = NoStack]
             n == Len(deferred)
  <2>1. ps[old] \in Process
    BY Zenon DEF Table
  <2>2. pr \in Process /\ pr.kstack = NoStack /\ k = ps[old].kstack /\ k \in Stacks
    BY Zenon, <1>2, <2>1 DEF Process
  <2>3. /\ procs' = [ps EXCEPT ![old] = pr]
        /\ deferred' = Append(deferred, k)
        /\ halted' = halted
    BY Zenon, <1>2 DEF defer_free
  <2>4. /\ procs' \in Table /\ procs'[old].kstack = NoStack
        /\ \A p \in Pids \ {old} : procs'[p].kstack = ps[p].kstack
    BY Zenon, <2>2, <2>3 DEF Table
  <2>5. /\ deferred' \in Seq(Stacks) /\ DOMAIN deferred' = DOMAIN deferred \cup {n + 1}
        /\ n + 1 \notin DOMAIN deferred
        /\ \A i \in DOMAIN deferred : deferred'[i] = deferred[i]
        /\ deferred'[n + 1] = k
    BY <2>2, <2>3
  <2>6. \A i \in DOMAIN deferred' : deferred'[i] # NoStack
    <3>1. NoStack \notin Stacks
      BY SchedulerAssumption DEF Stacks, NoStack
    <3>2. \A i \in DOMAIN deferred : deferred[i] \in Stacks
      OBVIOUS
    <3> HIDE DEF n
    <3> QED
      BY Zenon, <2>2, <2>5, <3>1, <3>2
  <2> HIDE DEF pr, n
  <2>7. Owned(procs', deferred', A)
    BY <1>2, <2>2, <2>4, <2>5, <2>6 DEF Owned
  <2> QED
    BY Zenon, <2>3, <2>4, <2>5, <2>7
<1> QED
  BY Zenon, <1>1, <1>2

\* The end of every system call, with or without a context switch.
LEMMA SyscallReturn ==
  ASSUME TypeOK, current_pid \in Pids, NEW ps \in Table, NEW A, Owned(ps, deferred, A),
         NEW force \in BOOLEAN, syscall_return(ps, force)
  PROVE  /\ procs' \in Table
         /\ current_pid' \in Pids
         /\ rsp0' \in Stacks \cup {NoStack}
         /\ force_switch' \in BOOLEAN
         /\ deferred' \in Seq(Stacks)
         /\ halted' \in BOOLEAN
         /\ Owned(procs', deferred', A)
<1>1. CASE force \/ force_switch
  <2> DEFINE k == IF ps[current_pid].state = "Zombie" THEN ps[current_pid].kstack ELSE NoStack
  <2>1. PICK rspOk \in BOOLEAN : defer_free(switch_next(ps, rspOk), current_pid, k)
    BY Zenon, <1>1 DEF syscall_return, schedule_force
  <2> DEFINE qs == switch_next(ps, rspOk)
  <2>2. next_pid(ps) \in Pids /\ qs \in Table /\ SameStacks(ps, qs)
    BY Zenon, SwitchNextTable
  <2>3. k \in {NoStack, qs[current_pid].kstack}
    BY Zenon, <2>2 DEF SameStacks
  <2> HIDE DEF qs
  <2>4. Owned(qs, deferred, A)
    BY Zenon, <2>2, OwnedSame
  <2>5. deferred \in Seq(Stacks) /\ halted \in BOOLEAN
    BY Zenon DEF TypeOK
  <2>6. /\ procs' \in Table /\ deferred' \in Seq(Stacks) /\ halted' \in BOOLEAN
        /\ Owned(procs', deferred', A)
    <3>1. defer_free(qs, current_pid, k)
      BY Zenon, <2>1 DEF qs
    <3> HIDE DEF k
    <3> QED
      BY Zenon, <2>2, <2>3, <2>4, <2>5, <3>1, DeferFree
  <2>7. current_pid' = next_pid(ps) /\ rsp0' = ps[next_pid(ps)].kstack /\ force_switch' = FALSE
    BY Zenon, <1>1 DEF syscall_return, schedule_force
  <2>8. ps[next_pid(ps)].kstack \in Stacks \cup {NoStack}
    BY Zenon, <2>2 DEF Table, Process
  <2> QED
    BY Zenon, <2>2, <2>6, <2>7, <2>8
<1>2. CASE ~(force \/ force_switch)
  BY Zenon, <1>2 DEF syscall_return, TypeOK
<1> QED
  BY Zenon, <1>1, <1>2

-----------------------------------------------------------------------------
(* The invariant *)

Inv == TypeOK /\ StackOwnership

\* What a step that leaves the rest alone has to show.
LEMMA InvNext ==
  ASSUME procs' \in Table, generations' \in [Pids -> Nat], INIT_PID' \in Pids,
         current_pid' \in Pids \cup {NoPid}, tick_counter' \in 0..(Quantum - 1),
         deferred' \in Seq(Stacks), allocated' \subseteq Stacks,
         rsp0' \in Stacks \cup {NoStack}, force_switch' \in BOOLEAN,
         KEYBOARD_WAKE_PENDING' \in BOOLEAN, line_ready' \in BOOLEAN,
         boot' \in {"tests", "regression", "init", "shell", "run", "halt"},
         halted' \in BOOLEAN, Owned(procs', deferred', allocated')
  PROVE  Inv'
BY Zenon DEF Inv, TypeOK, StackOwnership, Owned, Table

\* The empty table of process::init satisfies the invariant.
LEMMA InitInv == Init => Inv
<1> SUFFICES ASSUME Init PROVE Inv
  BY Zenon
<1> USE SchedulerAssumption
<1>1. 1 \in Stacks /\ 2 \in Stacks /\ NoStack \notin Stacks /\ IdlePid \in Pids /\ 1 \in Pids
  BY DEF Stacks, NoStack, Pids, IdlePid
<1>2. /\ NewProcess(NoPid, 0, 1, 0, 1) \in Process /\ NewProcess(NoPid, 0, 1, 0, 1).kstack = 1
      /\ NewProcess(NoPid, 0, 1, 0, 2) \in Process /\ NewProcess(NoPid, 0, 1, 0, 2).kstack = 2
      /\ EmptySlot \in Process /\ EmptySlot.kstack = NoStack
  <2>1. /\ NewProcess(NoPid, 0, 1, 0, 1) \in Process
        /\ NewProcess(NoPid, 0, 1, 0, 1).kstack = 1
    BY Zenon, <1>1 DEF NewProcess, Process, ProcessState, WakeReason, NoWake, Handler
  <2>2. /\ NewProcess(NoPid, 0, 1, 0, 2) \in Process
        /\ NewProcess(NoPid, 0, 1, 0, 2).kstack = 2
    BY Zenon, <1>1 DEF NewProcess, Process, ProcessState, WakeReason, NoWake, Handler
  <2> QED
    BY Zenon, <2>1, <2>2, EmptySlotType
<1>3. \A p \in Pids : /\ p = 0 => procs[p] = NewProcess(NoPid, 0, 1, 0, 1)
                      /\ p = 1 => procs[p] = NewProcess(NoPid, 0, 1, 0, 2)
                      /\ p \notin {0, 1} => procs[p] = EmptySlot
  BY Zenon DEF Init, IdlePid
<1>4. procs \in [Pids -> Process]
  BY Zenon, <1>2, <1>3 DEF Init
<1>5. TypeOK
  <2>1. generations \in [Pids -> Nat] /\ INIT_PID \in Pids /\ tick_counter \in 0..(Quantum - 1)
    BY <1>1 DEF Init, IdlePid
  <2>2. deferred \in Seq(Stacks) /\ allocated \subseteq Stacks
    BY <1>1 DEF Init
  <2> QED
    BY Zenon, <1>4, <2>1, <2>2 DEF Init, TypeOK
<1>6. StackOwnership
  BY <1>1, <1>2, <1>3 DEF Init, StackOwnership, NoStack
<1> QED
  BY Zenon, <1>5, <1>6 DEF Inv

\* The heap hands out stacks that are not allocated.
LEMMA FreshStack ==
  ASSUME NEW k \in alloc_kernel_stack
  PROVE  k \in Stacks /\ k \notin allocated
BY Zenon DEF alloc_kernel_stack, FreeStacks

\* The first free slot is a slot of the table.
LEMMA FirstFreeSlot ==
  ASSUME FreeSlots(procs) # {}
  PROVE  Least(FreeSlots(procs)) \in Pids /\ Least(FreeSlots(procs)) \in FreeSlots(procs)
<1>1. FreeSlots(procs) \subseteq Nat /\ FreeSlots(procs) \subseteq Pids
  BY SchedulerAssumption DEF FreeSlots, UserPids, Pids
<1> QED
  BY Zenon, <1>1, LeastProperty

\* spawn_user keeps the invariant: the new stack is nobody's.
LEMMA SpawnInv ==
  ASSUME Inv, NEW parent \in Pids \cup {NoPid}, FreeSlots(procs) # {}, Spawn(parent)
  PROVE  /\ procs' \in Table
         /\ generations' \in [Pids -> Nat]
         /\ allocated' \subseteq Stacks
         /\ Owned(procs', deferred, allocated')
<1> DEFINE pid == Least(FreeSlots(procs))
           parent_gen == IF parent # NoPid /\ IsSome(procs, parent)
                         THEN procs[parent].gen ELSE 0
           g == generations[pid] + 1
<1>1. PICK k \in alloc_kernel_stack : spawn_user(parent, k)
  BY Zenon DEF Spawn
<1>2. k \in Stacks /\ k \notin allocated
  BY Zenon, FreshStack
<1>3. pid \in Pids
  BY Zenon, FirstFreeSlot
<1>4. procs \in Table /\ generations \in [Pids -> Nat] /\ allocated \subseteq Stacks
  BY Zenon DEF Inv, TypeOK, Table
<1>5. parent_gen \in Nat
  <2>1. CASE parent = NoPid
    BY Zenon, <2>1
  <2>2. CASE parent \in Pids
    BY Zenon, <1>4, <2>2 DEF Table, Process
  <2> QED
    BY Zenon, <2>1, <2>2
<1>6. g \in Nat /\ pid \in Nat
  BY <1>3, <1>4, SchedulerAssumption DEF Pids
<1>7. /\ procs' = [procs EXCEPT ![pid] = NewProcess(parent, parent_gen, g, pid, k)]
      /\ generations' = [generations EXCEPT ![pid] = g]
      /\ allocated' = allocated \cup {k}
  BY Zenon, <1>1 DEF spawn_user
<1> HIDE DEF pid, parent_gen, g
<1> DEFINE pr == NewProcess(parent, parent_gen, g, pid, k)
<1>8. pr \in Process /\ pr.kstack = k
  BY <1>2, <1>5, <1>6, NewProcessType
<1>9. Owned(procs, deferred, allocated)
  BY Zenon, OwnedIsStackOwnership DEF Inv
<1> HIDE DEF pr
<1>10. procs' \in Table /\ Owned(procs', deferred, allocated')
  BY Zenon, <1>2, <1>3, <1>4, <1>7, <1>8, <1>9, OwnedSpawn DEF pr
<1> QED
  BY Zenon, <1>2, <1>3, <1>4, <1>6, <1>7, <1>10

\* Every step of kernel_main keeps the invariant.
LEMMA BootInv ==
  ASSUME Inv, Boot
  PROVE  Inv'
<1>0. /\ NoPid \in Pids \cup {NoPid} /\ 1 \in Pids \cup {NoPid}
      /\ Owned(procs, deferred, allocated) /\ procs \in Table
  BY OwnedIsStackOwnership, SchedulerAssumption DEF Inv, TypeOK, Table, Pids
<1> USE DEF Inv, TypeOK
<1>1. CASE BootTestSpawn
  BY Zenon, <1>0, <1>1, SpawnInv, InvNext DEF BootTestSpawn, Spawnable
<1>2. CASE BootClear
  <2>1. procs' = [p \in Pids |-> IF p = IdlePid THEN procs[p] ELSE EmptySlot]
    BY Zenon, <1>2 DEF BootClear
  <2>2. procs' \in Table
    BY Zenon, <2>1, <1>0, EmptySlotType DEF Table
  <2>3. /\ IdlePid \in Pids /\ IdlePid \notin UserPids /\ UserPids \subseteq Pids
        /\ NoStack \notin Stacks
    BY SchedulerAssumption DEF IdlePid, UserPids, Pids, Stacks, NoStack
  <2>4. \A p \in Pids : procs'[p].kstack = IF p = IdlePid THEN procs[p].kstack ELSE NoStack
    BY Zenon, <2>1, EmptySlotType
  <2>5. Owned(procs', deferred', allocated')
    BY <1>0, <1>2, <2>3, <2>4 DEF BootClear, Owned
  <2> QED
    BY Zenon, <1>2, <2>2, <2>5, InvNext DEF BootClear
<1>3. CASE BootRegression
  BY Zenon, <1>0, <1>3, SpawnInv, InvNext DEF BootRegression, RegressionLeft, Spawnable
<1>4. CASE BootForceSwitch
  BY <1>0, <1>4, InvNext DEF BootForceSwitch
<1>5. CASE BootInit
  <2>1. CASE Spawnable
    BY Zenon, <1>0, <1>5, <2>1, SpawnInv, FirstFreeSlot, InvNext DEF BootInit, Spawnable
  <2>2. CASE ~Spawnable
    BY Zenon, <1>0, <1>5, <2>2, InvNext DEF BootInit
  <2> QED
    BY Zenon, <2>1, <2>2
<1>6. CASE BootShell
  <2>1. CASE Spawnable
    BY Zenon, <1>0, <1>6, <2>1, SpawnInv, InvNext DEF BootShell, Spawnable
  <2>2. CASE ~Spawnable
    BY Zenon, <1>0, <1>6, <2>2, InvNext DEF BootShell
  <2> QED
    BY Zenon, <2>1, <2>2
<1> QED
  BY Zenon, <1>1, <1>2, <1>3, <1>4, <1>5, <1>6 DEF Boot

\* Freeing what is queued takes no stack from a slot.
LEMMA OwnedDrain ==
  ASSUME NEW ps \in Table, Owned(ps, deferred, allocated), deferred \in Seq(Stacks)
  PROVE  Owned(ps, <<>>, allocated \ {deferred[i] : i \in DOMAIN deferred})
<1>1. NoStack \notin Stacks /\ \A i \in DOMAIN deferred : deferred[i] \in Stacks
  BY SchedulerAssumption DEF Stacks, NoStack
<1> QED
  BY <1>1 DEF Owned

\* A timer interrupt keeps the invariant, whether it dispatches, ticks or switches.
LEMMA ScheduleInv ==
  ASSUME Inv, schedule
  PROVE  Inv'
<1> DEFINE ac == AfterConsole
           ws == WakeSleepers(ac)
<1>0. /\ Owned(procs, deferred, allocated) /\ procs \in Table
      /\ deferred \in Seq(Stacks) /\ allocated \subseteq Stacks
      /\ IdlePid \in Pids /\ Quantum \in Nat \ {0} /\ tick_counter \in 0..(Quantum - 1)
  BY OwnedIsStackOwnership, SchedulerAssumption DEF Inv, TypeOK, Table, IdlePid, Pids
<1>1. ac \in Table /\ SameStacks(procs, ac)
  <2>1. CASE ac = procs
    BY Zenon, <1>0, <2>1 DEF SameStacks
  <2>2. CASE ac = keyboard_wake(procs)
    BY Zenon, <1>0, <2>2, KeyboardWakeTable
  <2> QED
    BY Zenon, <2>1, <2>2 DEF AfterConsole
<1> HIDE DEF ac
<1>2. ws \in Table /\ SameStacks(ac, ws)
  BY Zenon, <1>1, WakeSleepersTable
<1> HIDE DEF ws
<1>3. /\ deferred' = <<>> /\ deferred' \in Seq(Stacks)
      /\ allocated' = allocated \ {deferred[i] : i \in DOMAIN deferred}
      /\ allocated' \subseteq Stacks
      /\ KEYBOARD_WAKE_PENDING' \in BOOLEAN
      /\ UNCHANGED <<generations, INIT_PID, force_switch, line_ready, boot, halted>>
  <2>1. DrainAndWake
    BY Zenon DEF schedule, schedule_first, schedule_tick, schedule_switch
  <2>2. /\ deferred' = <<>>
        /\ allocated' = allocated \ {deferred[i] : i \in DOMAIN deferred}
        /\ KEYBOARD_WAKE_PENDING' = FALSE
        /\ UNCHANGED <<generations, INIT_PID, force_switch, line_ready, boot, halted>>
    BY Zenon, <2>1 DEF DrainAndWake
  <2>3. <<>> \in Seq(Stacks)
    OBVIOUS
  <2> QED
    BY Zenon, <1>0, <2>2, <2>3
<1>4. Owned(procs, deferred', allocated')
  BY Zenon, <1>0, <1>3, OwnedDrain
<1>5. \A p \in Pids : procs[p].kstack \in Stacks \cup {NoStack}
  BY Zenon, <1>0 DEF Table, Process
<1>6. CASE schedule_first
  <2> DEFINE n == find_next_ready(ac, IdlePid)
  <2>1. n \in Pids
    BY Zenon, <1>0, FindNextReady
  <2>2. /\ procs' = Dispatch(ac, n) /\ current_pid' = n /\ tick_counter' = 0
        /\ rsp0' = procs[n].kstack
    BY Zenon, <1>6 DEF schedule_first, ac
  <2> HIDE DEF n
  <2>3. procs' \in Table /\ SameStacks(ac, procs')
    BY Zenon, <1>1, <2>1, <2>2, DispatchTable
  <2>4. Owned(procs', deferred', allocated')
    BY Zenon, <1>1, <1>4, <2>3, OwnedSame DEF SameStacks
  <2> QED
    BY <1>0, <1>3, <1>5, <2>1, <2>2, <2>3, <2>4, InvNext DEF Inv, TypeOK
<1>7. CASE schedule_tick
  <2>1. /\ procs' = ws /\ current_pid' = current_pid /\ tick_counter' = tick_counter + 1
        /\ tick_counter + 1 < Quantum /\ rsp0' = procs[current_pid].kstack
        /\ current_pid # NoPid
    BY Zenon, <1>7 DEF schedule_tick, ws, ac
  <2>2. Owned(procs', deferred', allocated')
    BY Zenon, <1>1, <1>2, <1>4, <2>1, OwnedSame DEF SameStacks
  <2>3. tick_counter' \in 0..(Quantum - 1)
    BY <1>0, <2>1
  <2> QED
    BY Zenon, <1>2, <1>3, <1>5, <2>1, <2>2, <2>3, InvNext DEF Inv, TypeOK
<1>8. CASE schedule_switch
  <2>1. current_pid \in Pids
    BY Zenon, <1>8 DEF schedule_switch, Inv, TypeOK
  <2>2. PICK rspOk \in BOOLEAN : procs' = switch_next(ws, rspOk)
    BY Zenon, <1>8 DEF schedule_switch, ws, ac
  <2>3. next_pid(ws) \in Pids /\ procs' \in Table /\ SameStacks(ws, procs')
    BY Zenon, <1>2, <2>1, <2>2, SwitchNextTable
  <2>4. /\ current_pid' = next_pid(ws) /\ rsp0' = procs[next_pid(ws)].kstack
        /\ tick_counter' = 0
    BY Zenon, <1>8 DEF schedule_switch, ws, ac
  <2>5. Owned(procs', deferred', allocated')
    BY Zenon, <1>1, <1>2, <1>4, <2>3, OwnedSame DEF SameStacks
  <2> QED
    BY <1>0, <1>3, <1>5, <2>3, <2>4, <2>5, InvNext DEF Inv, TypeOK
<1> QED
  BY Zenon, <1>6, <1>7, <1>8 DEF schedule

-----------------------------------------------------------------------------
(* System calls and interrupts *)

\* A system call that keeps the tables' types and the ownership of stacks up to
\* its return keeps the invariant.
LEMMA SyscallInv ==
  ASSUME Inv, current_pid \in Pids, NEW ps \in Table, NEW force \in BOOLEAN,
         syscall_return(ps, force), Owned(ps, deferred, allocated'),
         allocated' \subseteq Stacks, line_ready' \in BOOLEAN,
         UNCHANGED <<generations, INIT_PID, tick_counter, KEYBOARD_WAKE_PENDING, boot>>
  PROVE  Inv'
<1>1. /\ procs' \in Table
      /\ current_pid' \in Pids
      /\ rsp0' \in Stacks \cup {NoStack}
      /\ force_switch' \in BOOLEAN
      /\ deferred' \in Seq(Stacks)
      /\ halted' \in BOOLEAN
      /\ Owned(procs', deferred', allocated')
  BY Zenon, SyscallReturn DEF Inv
<1> QED
  BY Zenon, <1>1, InvNext DEF Inv, TypeOK

\* The same for a call that moves no stack before it returns.
LEMMA PlainSyscallInv ==
  ASSUME Inv, current_pid \in Pids, NEW ps \in Table, NEW force \in BOOLEAN,
         syscall_return(ps, force), SameStacks(procs, ps),
         UNCHANGED allocated, line_ready' \in BOOLEAN,
         UNCHANGED <<generations, INIT_PID, tick_counter, KEYBOARD_WAKE_PENDING, boot>>
  PROVE  Inv'
<1>1. Owned(ps, deferred, allocated')
  BY Zenon, OwnedIsStackOwnership, OwnedSame DEF Inv
<1> QED
  BY Zenon, <1>1, SyscallInv DEF Inv, TypeOK

\* The tables of a process that dies by exit or by a fault.
LEMMA DyingTable ==
  ASSUME TypeOK, current_pid \in Pids
  PROVE  LET ps == reparent_orphans_to_init(procs, current_pid)
             dead == [ps EXCEPT ![current_pid].state = "Zombie"]
         IN /\ dead \in Table /\ SameStacks(procs, dead)
<1> DEFINE ps == reparent_orphans_to_init(procs, current_pid)
           dead == [ps EXCEPT ![current_pid].state = "Zombie"]
<1>1. ps \in Table /\ SameStacks(procs, ps)
  BY Zenon, ReparentTable DEF TypeOK, Table
<1>2. "Zombie" \in ProcessState
  BY Zenon DEF ProcessState
<1> HIDE DEF ps
<1>3. dead \in Table /\ SameStacks(ps, dead)
  BY Zenon, <1>1, <1>2, SetStateTable
<1>4. SameStacks(procs, dead)
  BY Zenon, <1>1, <1>3 DEF SameStacks
<1> QED
  BY Zenon, <1>3, <1>4 DEF ps

\* sys_waitpid gives back the stack of the child it reaps, which no slot and no
\* entry of the deferred-free list still names.
LEMMA WaitpidInv ==
  ASSUME Inv, current_pid \in Pids, NEW c \in Pids, NEW WNOHANG \in BOOLEAN,
         NEW WUNTRACED \in BOOLEAN, waitpid(c, WNOHANG, WUNTRACED),
         UNCHANGED <<generations, INIT_PID, tick_counter, KEYBOARD_WAKE_PENDING,
                     line_ready, boot>>
  PROVE  Inv'
<1> DEFINE zombies == IF c = 0 THEN ZombieChildren(current_pid)
                      ELSE ZombieChildren(current_pid) \cap {c}
<1>0. /\ Owned(procs, deferred, allocated) /\ procs \in Table /\ SameStacks(procs, procs)
      /\ allocated \subseteq Stacks /\ line_ready \in BOOLEAN
  BY Zenon, OwnedIsStackOwnership DEF Inv, TypeOK, Table, SameStacks
<1>1. CASE zombies # {} /\ Reap(Least(zombies))
  <2> DEFINE z == Least(zombies)
             ps == reap_zombie(procs, z)
  <2>1. zombies \subseteq Pids /\ zombies \subseteq Nat
    BY SchedulerAssumption DEF ZombieChildren, Children, Pids
  <2>2. z \in Pids
    BY Zenon, <1>1, <2>1, LeastProperty
  <2>3. syscall_return(ps, FALSE) /\ allocated' = allocated \ {procs[z].kstack}
    BY Zenon, <1>1 DEF Reap
  <2> HIDE DEF z
  <2>4. /\ ps \in Table /\ ps[z].kstack = NoStack
        /\ \A p \in Pids \ {z} : ps[p].kstack = procs[p].kstack
    BY Zenon, <1>0, <2>2, ReapZombieTable, EmptySlotType
  <2>5. \A i \in DOMAIN deferred : deferred[i] # NoStack
    <3>1. deferred \in Seq(Stacks)
      BY Zenon DEF Inv, TypeOK
    <3>2. NoStack \notin Stacks
      BY SchedulerAssumption DEF Stacks, NoStack
    <3> QED
      BY <3>1, <3>2
  <2> HIDE DEF ps
  <2>6. Owned(ps, deferred, allocated')
    BY <1>0, <2>2, <2>3, <2>4, <2>5 DEF Owned
  <2> QED
    BY Zenon, <1>0, <2>3, <2>4, <2>6, SyscallInv
<1>2. CASE syscall_return(procs, FALSE) /\ UNCHANGED allocated
  BY Zenon, <1>0, <1>2, PlainSyscallInv
<1>3. CASE BlockFor(c) /\ UNCHANGED allocated
  <2>1. WaitForChild(c) \in WakeReason
    BY SchedulerAssumption DEF WaitForChild, WakeReason, Pids
  <2>2. /\ BlockOn(procs, current_pid, WaitForChild(c)) \in Table
        /\ SameStacks(procs, BlockOn(procs, current_pid, WaitForChild(c)))
    BY Zenon, <1>0, <2>1, BlockOnTable
  <2> QED
    BY Zenon, <1>0, <1>3, <2>2, PlainSyscallInv DEF BlockFor
<1> QED
  BY Zenon, <1>1, <1>2, <1>3 DEF waitpid

\* sys_fork keeps the invariant.
LEMMA ForkInv ==
  ASSUME Inv, current_pid \in Pids, sys_fork
  PROVE  Inv'
<1>0. /\ Owned(procs, deferred, allocated) /\ procs \in Table /\ SameStacks(procs, procs)
      /\ allocated \subseteq Stacks /\ line_ready' \in BOOLEAN
      /\ UNCHANGED <<generations, INIT_PID, tick_counter, KEYBOARD_WAKE_PENDING, boot>>
  BY Zenon, OwnedIsStackOwnership DEF Inv, TypeOK, Table, SameStacks, sys_fork
<1>1. CASE syscall_return(procs, FALSE) /\ UNCHANGED allocated
  BY Zenon, <1>0, <1>1, PlainSyscallInv
<1>2. ASSUME NEW k \in alloc_kernel_stack, allocated' = allocated \cup {k},
             \/ syscall_return(procs, FALSE)
             \/ /\ FreeSlots(procs) # {}
                /\ syscall_return([procs EXCEPT ![Least(FreeSlots(procs))] = ForkChild(k)], FALSE)
      PROVE  Inv'
  <2> DEFINE c == Least(FreeSlots(procs))
             ps == [procs EXCEPT ![c] = ForkChild(k)]
  <2>1. k \in Stacks /\ k \notin allocated /\ allocated' \subseteq Stacks
    BY Zenon, <1>0, <1>2, FreshStack
  <2>2. CASE syscall_return(procs, FALSE)
    <3>1. Owned(procs, deferred, allocated')
      BY Zenon, <1>0, <1>2 DEF Owned
    <3> QED
      BY Zenon, <1>0, <2>1, <2>2, <3>1, SyscallInv
  <2>3. CASE FreeSlots(procs) # {} /\ syscall_return(ps, FALSE)
    <3>1. c \in Pids
      BY Zenon, <2>3, FirstFreeSlot
    <3>2. procs[current_pid].gen \in Nat /\ procs[current_pid].pgid \in Nat
      BY Zenon, <1>0 DEF Table, Process
    <3>3. ForkChild(k) \in Process /\ ForkChild(k).kstack = k
      BY <2>1, <3>2, NewProcessType DEF ForkChild
    <3> HIDE DEF c
    <3>4. ps \in Table /\ Owned(ps, deferred, allocated')
      BY Zenon, <1>0, <1>2, <2>1, <3>1, <3>3, OwnedSpawn
    <3> QED
      BY Zenon, <1>0, <2>1, <2>3, <3>4, SyscallInv
  <2> QED
    BY Zenon, <1>2, <2>2, <2>3
<1> QED
  BY Zenon, <1>1, <1>2 DEF sys_fork

\* Every system call keeps the invariant.
LEMMA SyscallStepInv ==
  ASSUME Inv, Syscall
  PROVE  Inv'
<1>0. procs \in Table /\ SameStacks(procs, procs) /\ line_ready \in BOOLEAN /\ INIT_PID \in Pids
  BY Zenon DEF Inv, TypeOK, Table, SameStacks
<1>1. current_pid \in Pids
  BY Zenon, <1>0 DEF Syscall, sys_exit, sys_yield, sys_sleep, sys_waitpid, init_main, sys_read,
              sys_fork, sys_kill, sys_sigaction, sys_setpgid, Program, Inv, TypeOK
<1>2. CASE sys_exit
  <2> DEFINE ps == reparent_orphans_to_init(procs, current_pid)
             dead == [ps EXCEPT ![current_pid].state = "Zombie"]
             qs == wake_wait_for_child(dead, current_pid)
  <2>1. dead \in Table /\ SameStacks(procs, dead)
    BY Zenon, <1>1, DyingTable DEF Inv
  <2>2. syscall_return(qs, TRUE)
    BY Zenon, <1>2 DEF sys_exit
  <2> HIDE DEF dead
  <2>3. qs \in Table /\ SameStacks(dead, qs)
    BY Zenon, <2>1, WakeWaitForChildTable
  <2> HIDE DEF qs
  <2>4. SameStacks(procs, qs)
    BY Zenon, <2>1, <2>3 DEF SameStacks
  <2> QED
    BY Zenon, <1>0, <1>1, <1>2, <2>2, <2>3, <2>4, PlainSyscallInv DEF sys_exit
<1>3. CASE sys_yield
  BY Zenon, <1>0, <1>1, <1>3, PlainSyscallInv DEF sys_yield
<1>4. CASE sys_sleep
  <2>1. PICK n \in 0..MaxSleep : syscall_return(BlockOn(procs, current_pid, Sleep(n)), TRUE)
    BY Zenon, <1>4 DEF sys_sleep
  <2>2. Sleep(n) \in WakeReason
    BY SchedulerAssumption DEF Sleep, WakeReason
  <2>3. /\ BlockOn(procs, current_pid, Sleep(n)) \in Table
        /\ SameStacks(procs, BlockOn(procs, current_pid, Sleep(n)))
    BY Zenon, <1>0, <1>1, <2>2, BlockOnTable
  <2> QED
    BY Zenon, <1>0, <1>1, <1>4, <2>1, <2>3, PlainSyscallInv DEF sys_sleep
<1>5. CASE sys_waitpid
  BY Zenon, <1>1, <1>5, WaitpidInv DEF sys_waitpid
<1>6. CASE init_main
  <2>1. 0 \in Pids
    BY SchedulerAssumption DEF Pids
  <2> QED
    BY Zenon, <1>1, <1>6, <2>1, WaitpidInv DEF init_main
<1>7. CASE sys_read
  <2>1. Keyboard \in WakeReason
    BY Zenon DEF Keyboard, WakeReason
  <2>2. /\ BlockOn(procs, current_pid, Keyboard) \in Table
        /\ SameStacks(procs, BlockOn(procs, current_pid, Keyboard))
    BY Zenon, <1>0, <1>1, <2>1, BlockOnTable
  <2>3. CASE line_ready
    BY Zenon, <1>0, <1>1, <1>7, <2>3, PlainSyscallInv DEF sys_read
  <2>4. CASE ~line_ready
    BY Zenon, <1>0, <1>1, <1>7, <2>2, <2>4, PlainSyscallInv DEF sys_read
  <2> QED
    BY Zenon, <2>3, <2>4
<1>8. CASE sys_fork
  BY Zenon, <1>1, <1>8, ForkInv
<1>9. CASE sys_kill
  <2>1. PICK t \in Pids, s \in Sigs :
          \/ syscall_return(procs, FALSE)
          \/ syscall_return([procs EXCEPT ![t].pending = @ \cup {s}], FALSE)
    BY Zenon, <1>9 DEF sys_kill
  <2> DEFINE pr == [procs[t] EXCEPT !.pending = procs[t].pending \cup {s}]
             ps == [procs EXCEPT ![t].pending = @ \cup {s}]
  <2>2. pr \in Process /\ pr.kstack = procs[t].kstack
    <3>1. procs[t] \in Process
      BY Zenon, <1>0 DEF Table
    <3> QED
      BY Zenon, <3>1 DEF Process
  <2>3. ps = [procs EXCEPT ![t] = pr]
    BY Zenon
  <2> HIDE DEF pr, ps
  <2>4. ps \in Table /\ SameStacks(procs, ps)
    BY Zenon, <1>0, <2>2, <2>3, UpdateTable
  <2>5. syscall_return(procs, FALSE) \/ syscall_return(ps, FALSE)
    BY Zenon, <2>1 DEF ps
  <2> QED
    BY Zenon, <1>0, <1>1, <1>9, <2>4, <2>5, PlainSyscallInv DEF sys_kill
<1>10. CASE sys_sigaction
  <2>1. PICK s \in Sigs, h \in Handler :
          syscall_return([procs EXCEPT ![current_pid].handlers[s] = h], FALSE)
    BY Zenon, <1>10 DEF sys_sigaction
  <2> DEFINE hs == [procs[current_pid].handlers EXCEPT ![s] = h]
             pr == [procs[current_pid] EXCEPT !.handlers = hs]
             ps == [procs EXCEPT ![current_pid].handlers[s] = h]
  <2>2. pr \in Process /\ pr.kstack = procs[current_pid].kstack
    <3>1. procs[current_pid] \in Process
      BY Zenon, <1>0, <1>1 DEF Table
    <3>2. hs \in [Sigs -> Handler]
      BY Zenon, <3>1 DEF Process
    <3> HIDE DEF hs
    <3> QED
      BY Zenon, <3>1, <3>2 DEF Process
  <2>3. ps = [procs EXCEPT ![current_pid] = pr]
    BY Zenon
  <2> HIDE DEF hs, pr, ps
  <2>4. ps \in Table /\ SameStacks(procs, ps)
    BY Zenon, <1>0, <1>1, <2>2, <2>3, UpdateTable
  <2>5. syscall_return(ps, FALSE)
    BY Zenon, <2>1 DEF ps
  <2> QED
    BY Zenon, <1>0, <1>1, <1>10, <2>4, <2>5, PlainSyscallInv DEF sys_sigaction
<1>11. CASE sys_setpgid
  <2>1. PICK t \in UserPids, g \in UserPids :
          \/ syscall_return(procs, FALSE)
          \/ syscall_return([procs EXCEPT ![t].pgid = g], FALSE)
    BY Zenon, <1>11 DEF sys_setpgid
  <2> DEFINE pr == [procs[t] EXCEPT !.pgid = g]
             ps == [procs EXCEPT ![t].pgid = g]
  <2>2. t \in Pids /\ g \in Nat
    BY SchedulerAssumption DEF UserPids, Pids
  <2>3. pr \in Process /\ pr.kstack = procs[t].kstack
    <3>1. procs[t] \in Process
      BY Zenon, <1>0, <2>2 DEF Table
    <3> QED
      BY Zenon, <2>2, <3>1 DEF Process
  <2>4. ps = [procs EXCEPT ![t] = pr]
    BY Zenon
  <2> HIDE DEF pr, ps
  <2>5. ps \in Table /\ SameStacks(procs, ps)
    BY Zenon, <1>0, <2>2, <2>3, <2>4, UpdateTable
  <2>6. syscall_return(procs, FALSE) \/ syscall_return(ps, FALSE)
    BY Zenon, <2>1 DEF ps
  <2> QED
    BY Zenon, <1>0, <1>1, <1>11, <2>5, <2>6, PlainSyscallInv DEF sys_setpgid
<1> QED
  BY Zenon, <1>2, <1>3, <1>4, <1>5, <1>6, <1>7, <1>8, <1>9, <1>10, <1>11 DEF Syscall

\* A fault that kills the current process keeps the invariant.
LEMMA KillProcessInv ==
  ASSUME Inv, kill_process
  PROVE  Inv'
<1> DEFINE ps == reparent_orphans_to_init(procs, current_pid)
           dead == [ps EXCEPT ![current_pid].state = "Zombie"]
           next == find_next_ready(dead, current_pid)
           k == procs[current_pid].kstack
<1>0. /\ current_pid \in Pids /\ procs \in Table /\ Owned(procs, deferred, allocated)
      /\ deferred \in Seq(Stacks) /\ halted \in BOOLEAN
  BY Zenon, OwnedIsStackOwnership DEF Inv, TypeOK, Table, kill_process, Program
<1>1. dead \in Table /\ SameStacks(procs, dead)
  BY Zenon, <1>0, DyingTable DEF Inv
<1>2. /\ defer_free(Dispatch(dead, next), current_pid, k)
      /\ current_pid' = next /\ rsp0' = procs[next].kstack
      /\ UNCHANGED <<generations, INIT_PID, tick_counter, allocated, force_switch,
                     KEYBOARD_WAKE_PENDING, line_ready, boot>>
  BY Zenon DEF kill_process
<1> HIDE DEF dead
<1>3. next \in Pids
  BY Zenon, <1>0, FindNextReady
<1> HIDE DEF next
<1> DEFINE qs == Dispatch(dead, next)
<1>4. qs \in Table /\ SameStacks(dead, qs)
  BY Zenon, <1>1, <1>3, DispatchTable
<1> HIDE DEF qs
<1>5. Owned(qs, deferred, allocated) /\ k = qs[current_pid].kstack
  BY Zenon, <1>0, <1>1, <1>4, OwnedSame DEF SameStacks
<1>6. defer_free(qs, current_pid, k)
  BY Zenon, <1>2 DEF qs
<1>7. procs[next].kstack \in Stacks \cup {NoStack}
  BY Zenon, <1>0, <1>3 DEF Table, Process
<1> HIDE DEF k
<1>8. /\ procs' \in Table /\ deferred' \in Seq(Stacks) /\ halted' \in BOOLEAN
      /\ Owned(procs', deferred', allocated)
  BY Zenon, <1>0, <1>4, <1>5, <1>6, DeferFree
<1> QED
  BY Zenon, <1>2, <1>3, <1>7, <1>8, InvNext DEF Inv, TypeOK

\* Console input keeps the invariant.
LEMMA ConsoleInv ==
  ASSUME Inv, ConsoleInput \/ ConsoleSignal
  PROVE  Inv'
<1>0. procs \in Table /\ Owned(procs, deferred, allocated)
  BY Zenon, OwnedIsStackOwnership DEF Inv, TypeOK, Table
<1>1. CASE ConsoleInput
  BY Zenon, <1>0, <1>1, InvNext DEF ConsoleInput, Inv, TypeOK
<1>2. CASE ConsoleSignal
  <2>1. PICK s : procs' = send_signal_to_fg(procs, s)
    BY Zenon, <1>2 DEF ConsoleSignal
  <2>2. procs' \in Table /\ SameStacks(procs, procs')
    BY Zenon, <1>0, <2>1, SendSignalTable
  <2>3. Owned(procs', deferred, allocated)
    BY Zenon, <1>0, <2>2, OwnedSame
  <2> QED
    BY Zenon, <1>2, <2>2, <2>3, InvNext DEF ConsoleSignal, Inv, TypeOK
<1> QED
  BY Zenon, <1>1, <1>2

\* The invariant is inductive.
LEMMA NextInv == Inv /\ [Next]_vars => Inv'
<1> SUFFICES ASSUME Inv, [Next]_vars PROVE Inv'
  BY Zenon
<1>1. CASE Boot
  BY Zenon, <1>1, BootInv
<1>2. CASE Syscall
  BY Zenon, <1>2, SyscallStepInv
<1>3. CASE schedule
  BY Zenon, <1>3, ScheduleInv
<1>4. CASE kill_process
  BY Zenon, <1>4, KillProcessInv
<1>5. CASE ConsoleInput \/ ConsoleSignal
  BY Zenon, <1>5, ConsoleInv
<1>6. CASE UNCHANGED vars
  BY ZenonT(40), <1>6 DEF vars, Inv, TypeOK, StackOwnership
<1> QED
  BY Zenon, <1>1, <1>2, <1>3, <1>4, <1>5, <1>6 DEF Next, Interrupt

\* Types and stack ownership hold together in every reachable state of the kernel.
THEOREM Invariance == Spec => []Inv
<1> QED
  BY InitInv, NextInv, PTL DEF Spec

\* Whatever programs and the console do, every variable of the scheduler keeps
\* its type: no index leaves its table, the scan for the next process always
\* ends at a slot, and the tick counter stays inside the quantum.
THEOREM TypeCorrect == Spec => []TypeOK
<1>1. Inv => TypeOK
  BY Zenon DEF Inv
<1> QED
  BY <1>1, Invariance, PTL

\* No kernel stack is owned or freed twice by spawn_user, sys_fork, sys_exit,
\* kill_process, sys_waitpid, schedule_force and drain_deferred_free, for any
\* number of processes and stacks and any length of the deferred-free list.
THEOREM StacksOwnedOnce == Spec => []StackOwnership
<1>1. Inv => StackOwnership
  BY Zenon DEF Inv
<1> QED
  BY <1>1, Invariance, PTL

-----------------------------------------------------------------------------
(* What a slot of the table may be, and may become *)

\* A process that can run has no wake-up reason, and one without a stack is a
\* Zombie without one.
Fit(pr) ==
  /\ pr.state \in {"Ready", "Running"} => pr.wake = NoWake
  /\ pr.state # "Empty" /\ pr.kstack = NoStack => pr.state = "Zombie" /\ pr.wake = NoWake

\* What the process on the CPU may be.
OnCpu(pr) == pr.state \in {"Running", "Zombie", "Blocked"} /\ pr.wake = NoWake

\* A reader asleep on the console.
Reading(pr) == pr.state = "Blocked" /\ pr.wake = Keyboard

\* A Zombie that no wake site will find.
Dead(pr) == pr.state = "Zombie" /\ pr.wake = NoWake

\* Slot contents a may become b by a wake-up, a stop, an end or a change of the
\* fields that have nothing to do with running.
Eased(a, b) ==
  /\ b.parent = a.parent /\ b.parent_gen = a.parent_gen /\ b.kstack = a.kstack
  /\ b.state = "Empty" <=> a.state = "Empty"
  /\ Fit(a) => Fit(b)
  /\ b.state = "Running" => a.state = "Running"
  /\ OnCpu(a) => OnCpu(b)
  /\ Reading(b) => Reading(a)
  /\ Dead(a) => Dead(b)

\* Idle can always run.
IdleFit(ps) ==
  /\ ps[IdlePid].state \in {"Ready", "Running"}
  /\ ps[IdlePid].kstack # NoStack

\* Every slot is eased only, and idle can still run.
Gentle(ps, qs) ==
  /\ \A p \in Pids : Eased(ps[p], qs[p])
  /\ \A p \in Pids : Fit(ps[p])
  /\ IdleFit(ps) => IdleFit(qs)

\* Every slot is fit, only cur may be Running, and idle can run.
Sound(ps, cur) ==
  /\ \A p \in Pids : Fit(ps[p])
  /\ \A p \in Pids : ps[p].state = "Running" => p = cur
  /\ IdleFit(ps)

-----------------------------------------------------------------------------
(* Gentle operations *)

\* Idle is a slot of the table, and not one of the user's.
LEMMA IdleSlot == IdlePid \in Pids /\ IdlePid \notin UserPids /\ UserPids \subseteq Pids
BY SchedulerAssumption DEF IdlePid, Pids, UserPids

\* A slot that stays as it is.
LEMMA EasedSame ==
  ASSUME NEW a
  PROVE  Eased(a, a)
BY Zenon DEF Eased

\* Waking a process that has a wake-up reason.
LEMMA EasedWoken ==
  ASSUME NEW a \in Process, Fit(a), a.wake # NoWake, a.state # "Empty"
  PROVE  Eased(a, Woken(a))
<1>1. /\ Woken(a).state = "Ready" /\ Woken(a).wake = NoWake
      /\ Woken(a).parent = a.parent /\ Woken(a).parent_gen = a.parent_gen
      /\ Woken(a).kstack = a.kstack
  BY Zenon DEF Woken, Process
<1> HIDE DEF Woken
<1> QED
  BY Zenon, <1>1 DEF Eased, Fit, OnCpu, Reading, Dead

\* Stopping a process that owns a stack.
LEMMA EasedSuspend ==
  ASSUME NEW a \in Process, a.kstack # NoStack, a.state \notin {"Empty", "Zombie"}
  PROVE  Eased(a, Suspend(a, SIGTSTP))
<1> DEFINE b == Suspend(a, SIGTSTP)
<1>1. /\ b.state = "Blocked" /\ b.wake = NoWake
      /\ b.parent = a.parent /\ b.parent_gen = a.parent_gen
      /\ b.kstack = a.kstack
  BY Zenon DEF Suspend, Process
<1>2. NoWake # Keyboard
  BY Zenon DEF NoWake, Keyboard
<1> HIDE DEF b
<1>3. Eased(a, b)
  BY Zenon, <1>1, <1>2 DEF Eased, Fit, OnCpu, Reading, Dead
<1> QED
  BY Zenon, <1>3 DEF b

\* Ending a process.
LEMMA EasedZombie ==
  ASSUME NEW a \in Process, a.state # "Empty"
  PROVE  Eased(a, [a EXCEPT !.state = "Zombie"])
<1> DEFINE b == [a EXCEPT !.state = "Zombie"]
<1>1. /\ b.state = "Zombie" /\ b.wake = a.wake
      /\ b.parent = a.parent /\ b.parent_gen = a.parent_gen
      /\ b.kstack = a.kstack
  BY Zenon DEF Process
<1> HIDE DEF b
<1> QED
  BY <1>1 DEF Eased, Fit, OnCpu, Reading, Dead

\* A sleeper sleeps on.
LEMMA EasedAsleep ==
  ASSUME NEW a \in Process, a.state = "Blocked", a.wake.kind = "Sleep", NEW n
  PROVE  Eased(a, [a EXCEPT !.wake = Sleep(n)])
<1> DEFINE b == [a EXCEPT !.wake = Sleep(n)]
<1>1. /\ b.state = a.state /\ b.wake = Sleep(n)
      /\ b.parent = a.parent /\ b.parent_gen = a.parent_gen
      /\ b.kstack = a.kstack
  BY Zenon DEF Process
<1>2. Sleep(n) # Keyboard /\ a.wake # NoWake
  BY DEF Sleep, Keyboard, NoWake
<1> HIDE DEF b
<1> QED
  BY <1>1, <1>2 DEF Eased, Fit, OnCpu, Reading, Dead

\* Idle, Ready or Running, has no wake-up reason.
LEMMA IdleNotWaiting ==
  ASSUME NEW ps, \A p \in Pids : Fit(ps[p]), IdleFit(ps)
  PROVE  ps[IdlePid].wake = NoWake
BY Zenon, IdleSlot DEF IdleFit, Fit

\* Gentle steps follow each other.
LEMMA GentleTrans ==
  ASSUME NEW ps, NEW qs, NEW rs, Gentle(ps, qs), Gentle(qs, rs)
  PROVE  Gentle(ps, rs)
<1>1. ASSUME NEW p \in Pids
      PROVE  Eased(ps[p], rs[p])
  <2>1. Eased(ps[p], qs[p]) /\ Eased(qs[p], rs[p])
    BY Zenon DEF Gentle
  <2> QED
    BY Zenon, <2>1 DEF Eased
<1> QED
  BY Zenon, <1>1 DEF Gentle

\* After a gentle step every slot is fit again.
LEMMA GentleFit ==
  ASSUME NEW ps, NEW qs, Gentle(ps, qs)
  PROVE  \A p \in Pids : Fit(qs[p])
BY Zenon DEF Gentle, Eased

\* Nothing at all is gentle.
LEMMA GentleSame ==
  ASSUME NEW ps, \A p \in Pids : Fit(ps[p])
  PROVE  Gentle(ps, ps)
BY Zenon, EasedSame DEF Gentle

\* A step of one slot that is not idle's, or leaves the state there.
LEMMA GentleOne ==
  ASSUME NEW ps \in Table, \A p \in Pids : Fit(ps[p]), NEW p \in Pids, NEW b \in Process,
         Eased(ps[p], b), p = IdlePid => b.state = ps[p].state
  PROVE  Gentle(ps, [ps EXCEPT ![p] = b])
<1> DEFINE qs == [ps EXCEPT ![p] = b]
<1>1. \A q \in Pids : qs[q] = IF q = p THEN b ELSE ps[q]
  BY Zenon DEF Table
<1> HIDE DEF qs
<1>2. \A q \in Pids : Eased(ps[q], qs[q])
  BY Zenon, <1>1, EasedSame
<1>3. IdleFit(ps) => IdleFit(qs)
  BY Zenon, <1>1, IdleSlot DEF IdleFit, Eased
<1>4. Gentle(ps, qs)
  BY Zenon, <1>2, <1>3 DEF Gentle
<1> QED
  BY Zenon, <1>4 DEF qs

\* A gentle step keeps the table sound and the process on the CPU one that may be.
LEMMA GentleSound ==
  ASSUME NEW ps, NEW qs, NEW cur, Gentle(ps, qs), Sound(ps, cur)
  PROVE  Sound(qs, cur)
BY Zenon DEF Gentle, Sound, Eased

\* A table made slot by slot out of eased slots, idle's state untouched.
LEMMA GentleEach ==
  ASSUME NEW ps, NEW qs, \A p \in Pids : Fit(ps[p]), \A p \in Pids : Eased(ps[p], qs[p]),
         IdleFit(ps) => qs[IdlePid] = ps[IdlePid]
  PROVE  Gentle(ps, qs)
BY Zenon DEF Gentle, IdleFit

\* process::keyboard_wake wakes sleepers only.
LEMMA KeyboardWakeGentle ==
  ASSUME NEW ps \in Table, \A p \in Pids : Fit(ps[p])
  PROVE  /\ Gentle(ps, keyboard_wake(ps))
         /\ \A p \in Pids : ~Reading(keyboard_wake(ps)[p])
<1> DEFINE Due(p) == /\ ps[p].state = "Blocked"
                     /\ \/ ps[p].wake.kind = "Keyboard"
                        \/ /\ ps[p].wake.kind = "WaitForChild"
                           /\ ps[p].wake.arg \in Pids
                           /\ ps[ps[p].wake.arg].state = "Zombie"
           qs == keyboard_wake(ps)
<1>1. \A p \in Pids : qs[p] = IF Due(p) THEN Woken(ps[p]) ELSE ps[p]
  BY Zenon DEF keyboard_wake
<1>2. \A p \in Pids : Due(p) => ps[p].wake # NoWake /\ ps[p].state # "Empty" /\ ps[p].state = "Blocked"
  BY DEF NoWake
<1>3. \A p \in Pids : Reading(ps[p]) => Due(p)
  BY DEF Reading, Keyboard
<1>4. \A p \in Pids : ps[p] \in Process
  BY Zenon DEF Table
<1>5. \A p \in Pids : ~Reading(Woken(ps[p]))
  BY Zenon, <1>4 DEF Woken, Process, Reading
<1> HIDE DEF Due, qs
<1>6. \A p \in Pids : Eased(ps[p], qs[p])
  BY Zenon, <1>1, <1>2, <1>4, EasedSame, EasedWoken
<1>7. IdleFit(ps) => qs[IdlePid] = ps[IdlePid]
  BY Zenon, <1>1, <1>2, IdleSlot DEF IdleFit
<1>8. Gentle(ps, qs)
  BY Zenon, <1>6, <1>7, GentleEach
<1>9. \A p \in Pids : ~Reading(qs[p])
  BY Zenon, <1>1, <1>3, <1>5
<1> QED
  BY Zenon, <1>8, <1>9 DEF qs

\* The sleepers' loop of on_tick wakes sleepers only.
LEMMA WakeSleepersGentle ==
  ASSUME NEW ps \in Table, \A p \in Pids : Fit(ps[p])
  PROVE  Gentle(ps, WakeSleepers(ps))
<1> DEFINE Due(p) == ps[p].state = "Blocked" /\ ps[p].wake.kind = "Sleep"
           On(p) == [ps[p] EXCEPT !.wake = Sleep(ps[p].wake.arg - 1)]
           qs == WakeSleepers(ps)
<1>1. \A p \in Pids : qs[p] = IF Due(p) THEN IF ps[p].wake.arg <= 1 THEN Woken(ps[p]) ELSE On(p)
                              ELSE ps[p]
  BY Zenon DEF WakeSleepers
<1>2. \A p \in Pids : Due(p) => ps[p].wake # NoWake /\ ps[p].state # "Empty" /\ ps[p].state = "Blocked"
  BY DEF NoWake
<1>4. \A p \in Pids : ps[p] \in Process
  BY Zenon DEF Table
<1>5. \A p \in Pids : Due(p) => Eased(ps[p], On(p))
  BY Zenon, <1>4, EasedAsleep
<1> HIDE DEF Due, qs, On
<1>6. \A p \in Pids : Eased(ps[p], qs[p])
  BY Zenon, <1>1, <1>2, <1>4, <1>5, EasedSame, EasedWoken
<1>7. IdleFit(ps) => qs[IdlePid] = ps[IdlePid]
  BY Zenon, <1>1, <1>2, IdleSlot DEF IdleFit
<1>8. Gentle(ps, qs)
  BY Zenon, <1>6, <1>7, GentleEach
<1> QED
  BY Zenon, <1>8 DEF qs

\* process::wake_wait_for_child wakes sleepers only.
LEMMA WakeWaitForChildGentle ==
  ASSUME NEW ps \in Table, \A p \in Pids : Fit(ps[p]), NEW z
  PROVE  Gentle(ps, wake_wait_for_child(ps, z))
<1> DEFINE Due(p) == /\ p # IdlePid
                     /\ ps[p].state = "Blocked"
                     /\ ps[p].wake.kind = "WaitForChild"
                     /\ ps[p].wake.arg \in {z, 0}
           qs == wake_wait_for_child(ps, z)
<1>1. \A p \in Pids : qs[p] = IF Due(p) THEN Woken(ps[p]) ELSE ps[p]
  BY Zenon DEF wake_wait_for_child
<1>2. \A p \in Pids : Due(p) => ps[p].wake # NoWake /\ ps[p].state # "Empty" /\ p # IdlePid
  BY DEF NoWake
<1>4. \A p \in Pids : ps[p] \in Process
  BY Zenon DEF Table
<1> HIDE DEF Due, qs
<1>6. \A p \in Pids : Eased(ps[p], qs[p])
  BY Zenon, <1>1, <1>2, <1>4, EasedSame, EasedWoken
<1>7. IdleFit(ps) => qs[IdlePid] = ps[IdlePid]
  BY Zenon, <1>1, <1>2, IdleSlot
<1>8. Gentle(ps, qs)
  BY Zenon, <1>6, <1>7, GentleEach
<1> QED
  BY Zenon, <1>8 DEF qs

\* The second loop of send_signal_to_fg wakes processes that wait for a child,
\* dead or alive, and they have their stacks.
LEMMA WakeWaitersGentle ==
  ASSUME NEW ps \in Table, \A p \in Pids : Fit(ps[p]), NEW killed
  PROVE  Gentle(ps, WakeWaiters(ps, killed))
<1> DEFINE Due(p) == /\ p # IdlePid
                     /\ IsSome(ps, p)
                     /\ ps[p].wake.kind = "WaitForChild"
                     /\ ps[p].wake.arg \in killed \cup (IF killed = {} THEN {} ELSE {0})
           qs == WakeWaiters(ps, killed)
<1>1. \A p \in Pids : qs[p] = IF Due(p) THEN Woken(ps[p]) ELSE ps[p]
  BY Zenon DEF WakeWaiters
<1>2. \A p \in Pids : Due(p) => ps[p].wake # NoWake /\ ps[p].state # "Empty" /\ p # IdlePid
  BY DEF NoWake, IsSome
<1>4. \A p \in Pids : ps[p] \in Process
  BY Zenon DEF Table
<1> HIDE DEF Due, qs
<1>6. \A p \in Pids : Eased(ps[p], qs[p])
  BY Zenon, <1>1, <1>2, <1>4, EasedSame, EasedWoken
<1>7. IdleFit(ps) => qs[IdlePid] = ps[IdlePid]
  BY Zenon, <1>1, <1>2, IdleSlot
<1>8. Gentle(ps, qs)
  BY Zenon, <1>6, <1>7, GentleEach
<1> QED
  BY Zenon, <1>8 DEF qs

\* The third loop of send_signal_to_fg wakes readers only.
LEMMA WakeReadersGentle ==
  ASSUME NEW ps \in Table, \A p \in Pids : Fit(ps[p])
  PROVE  Gentle(ps, WakeReaders(ps))
<1> DEFINE Due(p) == ps[p].state = "Blocked" /\ ps[p].wake.kind = "Keyboard"
           qs == WakeReaders(ps)
<1>1. \A p \in Pids : qs[p] = IF Due(p) THEN Woken(ps[p]) ELSE ps[p]
  BY Zenon DEF WakeReaders
<1>2. \A p \in Pids : Due(p) => ps[p].wake # NoWake /\ ps[p].state # "Empty" /\ ps[p].state = "Blocked"
  BY DEF NoWake
<1>4. \A p \in Pids : ps[p] \in Process
  BY Zenon DEF Table
<1> HIDE DEF Due, qs
<1>6. \A p \in Pids : Eased(ps[p], qs[p])
  BY Zenon, <1>1, <1>2, <1>4, EasedSame, EasedWoken
<1>7. IdleFit(ps) => qs[IdlePid] = ps[IdlePid]
  BY Zenon, <1>1, <1>2, IdleSlot DEF IdleFit
<1>8. Gentle(ps, qs)
  BY Zenon, <1>6, <1>7, GentleEach
<1> QED
  BY Zenon, <1>8 DEF qs

\* The first loop of send_signal_to_fg ends or stops processes that are alive,
\* and those have their stacks.
LEMMA SignalGroupGentle ==
  ASSUME NEW ps \in Table, \A p \in Pids : Fit(ps[p]), NEW s
  PROVE  Gentle(ps, SignalGroup(ps, s))
<1> DEFINE Hit(p) == p \in Targets(ps)
           Ended(p) == [ps[p] EXCEPT !.state = "Zombie"]
           qs == SignalGroup(ps, s)
<1>1. \A p \in Pids : qs[p] = IF ~Hit(p) THEN ps[p]
                              ELSE IF s = SIGTSTP THEN Suspend(ps[p], SIGTSTP) ELSE Ended(p)
  BY Zenon DEF SignalGroup
<1>2. \A p \in Pids : Hit(p) => p \in UserPids /\ ps[p].state # "Empty" /\ ps[p].state # "Zombie"
  BY Zenon DEF Targets
<1>3. \A p \in Pids : Hit(p) => ps[p].kstack # NoStack
  BY Zenon, <1>2 DEF Fit
<1>4. \A p \in Pids : ps[p] \in Process
  BY Zenon DEF Table
<1>5. \A p \in Pids : Hit(p) => Eased(ps[p], Ended(p))
  BY Zenon, <1>2, <1>4, EasedZombie
<1> HIDE DEF Hit, Ended, qs
<1>6. \A p \in Pids : Eased(ps[p], qs[p])
  BY Zenon, <1>1, <1>2, <1>3, <1>4, <1>5, EasedSame, EasedSuspend
<1>7. IdleFit(ps) => qs[IdlePid] = ps[IdlePid]
  BY Zenon, <1>1, <1>2, IdleSlot
<1>8. Gentle(ps, qs)
  BY Zenon, <1>6, <1>7, GentleEach
<1> QED
  BY Zenon, <1>8 DEF qs

\* A signal character is gentle.
LEMMA SendSignalGentle ==
  ASSUME NEW ps \in Table, \A p \in Pids : Fit(ps[p]), NEW s
  PROVE  Gentle(ps, send_signal_to_fg(ps, s))
<1> DEFINE killed == IF s \in {SIGINT, SIGQUIT} THEN Targets(ps) ELSE {}
           a == SignalGroup(ps, s)
           b == WakeWaiters(a, killed)
<1>1. Gentle(ps, a) /\ \A p \in Pids : Fit(a[p])
  BY Zenon, SignalGroupGentle, GentleFit
<1>2. a \in Table
  <2>1. ASSUME NEW p \in Pids
        PROVE  /\ ps[p] \in Process
               /\ Suspend(ps[p], SIGTSTP) \in Process
               /\ [ps[p] EXCEPT !.state = "Zombie"] \in Process
    <3>1. ps[p] \in Process /\ "Zombie" \in ProcessState
      BY Zenon DEF Table, ProcessState
    <3> QED
      BY Zenon, <3>1, SuspendType, SetStateType
  <2> QED
    BY Zenon, <2>1 DEF SignalGroup, Table
<1> HIDE DEF a, killed
<1>3. Gentle(a, b) /\ b \in Table /\ \A p \in Pids : Fit(b[p])
  BY Zenon, <1>1, <1>2, WakeWaitersGentle, WakeWaitersTable, GentleFit
<1> HIDE DEF b
<1>4. Gentle(b, WakeReaders(b))
  BY Zenon, <1>3, WakeReadersGentle
<1>5. Gentle(ps, WakeReaders(b))
  BY Zenon, <1>1, <1>3, <1>4, GentleTrans
<1> QED
  BY Zenon, <1>5 DEF send_signal_to_fg, a, b, killed

\* The default action of a signal on a live user process is gentle.
LEMMA DefaultActionGentle ==
  ASSUME NEW ps \in Table, \A q \in Pids : Fit(ps[q]), NEW p \in UserPids,
         ps[p].state \notin {"Empty", "Zombie"}, NEW s
  PROVE  Gentle(ps, DefaultAction(ps, p, s))
<1>1. /\ p \in Pids /\ p # IdlePid /\ ps[p] \in Process /\ ps[p].kstack # NoStack
      /\ "Zombie" \in ProcessState
  BY Zenon, IdleSlot DEF Table, Fit, ProcessState
<1>2. CASE s = SIGTSTP
  <2>1. DefaultAction(ps, p, s) = [ps EXCEPT ![p] = Suspend(ps[p], SIGTSTP)]
    BY <1>2 DEF DefaultAction, SIGTSTP, SIGCONT, SIGSTOP
  <2>2. Suspend(ps[p], SIGTSTP) \in Process /\ Eased(ps[p], Suspend(ps[p], SIGTSTP))
    BY Zenon, <1>1, SuspendType, EasedSuspend
  <2> QED
    BY Zenon, <1>1, <2>1, <2>2, GentleOne
<1>3. CASE s \in {SIGCONT, SIGSTOP}
  BY <1>3, GentleSame DEF DefaultAction, SIGTSTP, SIGCONT, SIGSTOP
<1>4. CASE s \notin {SIGTSTP, SIGCONT, SIGSTOP}
  <2> DEFINE z == [ps[p] EXCEPT !.state = "Zombie"]
  <2>1. DefaultAction(ps, p, s) = [ps EXCEPT ![p] = z]
    BY Zenon, <1>4 DEF DefaultAction
  <2>2. z \in Process /\ Eased(ps[p], z)
    BY Zenon, <1>1, SetStateType, EasedZombie
  <2> HIDE DEF z
  <2> QED
    BY Zenon, <1>1, <2>1, <2>2, GentleOne
<1> QED
  BY Zenon, <1>2, <1>3, <1>4

\* Waking a parent that waits for exactly this child is gentle.
LEMMA WakeParentGentle ==
  ASSUME NEW ps \in Table, \A q \in Pids : Fit(ps[q]), NEW p \in Pids
  PROVE  Gentle(ps, WakeParent(ps, p))
<1> DEFINE par == ps[p].parent
<1>1. par \in Pids \cup {NoPid}
  BY Zenon DEF Table, Process
<1>2. CASE WakeParent(ps, p) = ps
  BY Zenon, <1>2, GentleSame
<1>3. CASE /\ par # NoPid /\ IsSome(ps, par) /\ ps[par].wake = WaitForChild(p)
           /\ WakeParent(ps, p) = [ps EXCEPT ![par] = Woken(ps[par])]
  <2>1. par \in Pids /\ ps[par] \in Process /\ ps[par].wake # NoWake /\ ps[par].state # "Empty"
    BY <1>1, <1>3 DEF Table, IsSome, WaitForChild, NoWake
  <2>2. Woken(ps[par]) \in Process /\ Eased(ps[par], Woken(ps[par]))
    BY Zenon, <2>1, WokenType, EasedWoken
  <2>3. CASE par # IdlePid
    <3> HIDE DEF par
    <3> QED
      BY Zenon, <1>3, <2>1, <2>2, <2>3, GentleOne
  <2>4. CASE par = IdlePid
    <3> DEFINE qs == [ps EXCEPT ![par] = Woken(ps[par])]
    <3>1. \A q \in Pids : qs[q] = IF q = par THEN Woken(ps[par]) ELSE ps[q]
      BY Zenon DEF Table
    <3> HIDE DEF qs
    <3>2. ~IdleFit(ps)
      BY Zenon, <2>1, <2>4, IdleNotWaiting
    <3>3. \A q \in Pids : Eased(ps[q], qs[q])
      BY Zenon, <2>2, <3>1, EasedSame
    <3>4. Gentle(ps, qs)
      BY Zenon, <3>2, <3>3, GentleEach
    <3> QED
      BY Zenon, <1>3, <3>4 DEF qs
  <2> QED
    BY Zenon, <2>3, <2>4
<1> QED
  BY Zenon, <1>2, <1>3 DEF WakeParent

\* Scheduler::deliver_signal on a process that has a stack is gentle.
LEMMA DeliverSignalGentle ==
  ASSUME NEW ps \in Table, \A q \in Pids : Fit(ps[q]), NEW p \in Pids,
         ps[p].state = "Running", NEW rspOk \in BOOLEAN
  PROVE  Gentle(ps, deliver_signal(ps, p, rspOk))
<1> DEFINE sig == Least(ps[p].pending)
           pr == [ps[p] EXCEPT !.pending = ps[p].pending \ {sig}]
           z == [pr EXCEPT !.state = "Zombie"]
           cleared == [ps EXCEPT ![p].pending = @ \ {sig}]
           zombied == [cleared EXCEPT ![p].state = "Zombie"]
           acted == DefaultAction(cleared, p, sig)
<1>1. pr \in Process /\ Eased(ps[p], pr) /\ pr.state = ps[p].state
  <2>1. ps[p] \in Process
    BY Zenon DEF Table
  <2>2. /\ pr \in Process /\ pr.state = ps[p].state /\ pr.wake = ps[p].wake
        /\ pr.parent = ps[p].parent /\ pr.parent_gen = ps[p].parent_gen
        /\ pr.kstack = ps[p].kstack
    BY Zenon, <2>1 DEF Process
  <2> HIDE DEF pr
  <2> QED
    BY Zenon, <2>2 DEF Eased, Fit, OnCpu, Reading, Dead
<1>2. cleared = [ps EXCEPT ![p] = pr]
  BY Zenon
<1>3. zombied = [cleared EXCEPT ![p] = z]
  BY Zenon, <1>2 DEF Table
<1>4. deliver_signal(ps, p, rspOk) # ps =>
        /\ p # IdlePid
        /\ deliver_signal(ps, p, rspOk) \in {cleared, WakeParent(acted, p), zombied}
  BY Zenon DEF deliver_signal, cleared, acted, sig
<1> HIDE DEF sig, cleared, zombied
<1>5. cleared \in Table /\ Gentle(ps, cleared) /\ cleared[p] = pr
  <2> HIDE DEF pr
  <2>1. [ps EXCEPT ![p] = pr] \in Table /\ [ps EXCEPT ![p] = pr][p] = pr
    BY Zenon, <1>1 DEF Table
  <2>2. Gentle(ps, [ps EXCEPT ![p] = pr])
    BY Zenon, <1>1, GentleOne
  <2> QED
    BY Zenon, <1>2, <2>1, <2>2
<1>6. \A q \in Pids : Fit(cleared[q])
  BY Zenon, <1>5, GentleFit
<1>7. CASE p = IdlePid
  BY Zenon, <1>4, <1>7, GentleSame
<1>8. CASE p # IdlePid
  <2>1. p \in UserPids /\ cleared[p].state \notin {"Empty", "Zombie"}
    BY <1>1, <1>5, <1>8, SchedulerAssumption DEF UserPids, Pids, IdlePid
  <2>2. acted \in Table /\ Gentle(cleared, acted)
    BY Zenon, <1>5, <1>6, <2>1, DefaultActionTable, DefaultActionGentle
  <2> HIDE DEF acted
  <2>3. Gentle(acted, WakeParent(acted, p))
    BY Zenon, <1>6, <2>2, GentleFit, WakeParentGentle
  <2>4. Gentle(ps, WakeParent(acted, p))
    BY Zenon, <1>5, <2>2, <2>3, GentleTrans
  <2>5. Gentle(cleared, zombied)
    <3>1. z \in Process /\ Eased(pr, z)
      <4> HIDE DEF pr
      <4>1. "Zombie" \in ProcessState
        BY Zenon DEF ProcessState
      <4> QED
        BY Zenon, <1>1, <4>1, SetStateType, EasedZombie
    <3> HIDE DEF z, pr
    <3>2. Gentle(cleared, [cleared EXCEPT ![p] = z])
      BY Zenon, <1>5, <1>6, <1>8, <3>1, GentleOne
    <3> QED
      BY Zenon, <1>3, <3>2
  <2>6. Gentle(ps, zombied)
    BY Zenon, <1>5, <2>5, GentleTrans
  <2> QED
    BY <1>4, <1>5, <2>4, <2>6, GentleSame, Zenon
<1> QED
  BY Zenon, <1>7, <1>8

-----------------------------------------------------------------------------
(* Context switches *)

\* The same slots are taken, by processes with the same recorded parents.
SameKin(ps, qs) ==
  \A p \in Pids : /\ qs[p].parent = ps[p].parent /\ qs[p].parent_gen = ps[p].parent_gen
                  /\ qs[p].state = "Empty" <=> ps[p].state = "Empty"

\* Nobody new waits for the console.
NoNewReader(ps, qs) == \A p \in Pids : Reading(qs[p]) => Reading(ps[p])

\* Gentle steps change no family and make no reader.
LEMMA GentleKin ==
  ASSUME NEW ps, NEW qs, Gentle(ps, qs)
  PROVE  SameKin(ps, qs) /\ NoNewReader(ps, qs)
BY Zenon DEF Gentle, Eased, SameKin, NoNewReader

\* First half of switch_next: afterwards nobody runs.
LEMMA PreemptSound ==
  ASSUME NEW ps \in Table, NEW cur \in Pids, Sound(ps, cur)
  PROVE  LET qs == Preempt(ps, cur) IN
         /\ \A p \in Pids : Fit(qs[p]) /\ qs[p].state # "Running"
         /\ IdleFit(qs) /\ SameKin(ps, qs) /\ NoNewReader(ps, qs) /\ SameStacks(ps, qs)
         /\ ps[cur].state # "Running" => qs = ps
<1> DEFINE qs == Preempt(ps, cur)
<1>1. CASE ps[cur].state = "Running"
  <2> DEFINE b == [ps[cur] EXCEPT !.state = "Ready"]
  <2>1. ps[cur] \in Process
    BY Zenon DEF Table
  <2>2. /\ b.state = "Ready" /\ b.wake = ps[cur].wake /\ b.parent = ps[cur].parent
        /\ b.parent_gen = ps[cur].parent_gen /\ b.kstack = ps[cur].kstack
    BY Zenon, <2>1 DEF Process
  <2>3. \A p \in Pids : qs[p] = IF p = cur THEN b ELSE ps[p]
    BY Zenon, <1>1 DEF Preempt, Table
  <2> HIDE DEF qs, b
  <2>4. Fit(b) /\ ~Reading(b)
    BY Zenon, <1>1, <2>2 DEF Sound, Fit, Reading
  <2>5. /\ \A p \in Pids : Fit(qs[p]) /\ qs[p].state # "Running"
        /\ IdleFit(qs)
    BY Zenon, <2>2, <2>3, <2>4, IdleSlot DEF Sound, IdleFit
  <2>6. SameKin(ps, qs) /\ NoNewReader(ps, qs) /\ SameStacks(ps, qs)
    BY Zenon, <1>1, <2>2, <2>3, <2>4 DEF SameKin, NoNewReader, SameStacks
  <2> QED
    BY Zenon, <1>1, <2>5, <2>6 DEF qs
<1>2. CASE ps[cur].state # "Running"
  <2>1. qs = ps
    BY Zenon, <1>2 DEF Preempt
  <2>2. \A p \in Pids : Fit(ps[p]) /\ ps[p].state # "Running"
    BY Zenon, <1>2 DEF Sound
  <2> HIDE DEF qs
  <2>3. /\ \A p \in Pids : Fit(qs[p]) /\ qs[p].state # "Running"
        /\ IdleFit(qs) /\ SameKin(ps, qs) /\ NoNewReader(ps, qs) /\ SameStacks(ps, qs)
    BY Zenon, <2>1, <2>2 DEF Sound, SameKin, NoNewReader, SameStacks
  <2> QED
    BY Zenon, <2>1, <2>3 DEF qs
<1> QED
  BY Zenon, <1>1, <1>2

\* Whom the scan finds can run: it is Ready or idle, and has its stack.
LEMMA FoundCanRun ==
  ASSUME NEW ps, NEW a \in Pids, \A p \in Pids : Fit(ps[p]) /\ ps[p].state # "Running", IdleFit(ps)
  PROVE  LET n == find_next_ready(ps, a) IN
         n \in Pids /\ ps[n].state = "Ready" /\ ps[n].kstack # NoStack /\ ps[n].wake = NoWake
<1> DEFINE n == find_next_ready(ps, a)
<1>1. n \in Pids /\ (n # IdlePid => n \in ReadyUsers(ps))
  BY Zenon, FindNextReady
<1> HIDE DEF n
<1>2. ps[n].state = "Ready"
  BY Zenon, <1>1, IdleSlot DEF IdleFit, ReadyUsers
<1>3. ps[n].kstack # NoStack /\ ps[n].wake = NoWake
  BY Zenon, <1>1, <1>2 DEF Fit
<1> QED
  BY Zenon, <1>1, <1>2, <1>3 DEF n

\* Dispatching a process that can run.
LEMMA DispatchSound ==
  ASSUME NEW ps \in Table, \A p \in Pids : Fit(ps[p]) /\ ps[p].state # "Running", IdleFit(ps),
         NEW n \in Pids, ps[n].state = "Ready", ps[n].kstack # NoStack, ps[n].wake = NoWake
  PROVE  LET qs == Dispatch(ps, n) IN
         /\ Sound(qs, n) /\ OnCpu(qs[n]) /\ qs[n].state = "Running"
         /\ SameKin(ps, qs) /\ NoNewReader(ps, qs)
         /\ \A p \in Pids \ {n} : qs[p] = ps[p]
<1> DEFINE qs == Dispatch(ps, n)
           b == [ps[n] EXCEPT !.state = "Running"]
<1>1. ps[n] \in Process
  BY Zenon DEF Table
<1>2. /\ b.state = "Running" /\ b.wake = NoWake /\ b.parent = ps[n].parent
      /\ b.parent_gen = ps[n].parent_gen /\ b.kstack = ps[n].kstack
  BY Zenon, <1>1 DEF Process
<1>3. \A p \in Pids : qs[p] = IF p = n THEN b ELSE ps[p]
  BY Zenon DEF Dispatch, Table
<1> HIDE DEF qs, b
<1>4. Fit(b) /\ ~Reading(b) /\ OnCpu(b)
  BY Zenon, <1>2 DEF Fit, Reading, OnCpu
<1>5. Sound(qs, n)
  BY Zenon, <1>2, <1>3, <1>4, IdleSlot DEF Sound, IdleFit
<1>6. SameKin(ps, qs) /\ NoNewReader(ps, qs)
  BY Zenon, <1>2, <1>3, <1>4 DEF SameKin, NoNewReader
<1> QED
  BY Zenon, <1>2, <1>3, <1>4, <1>5, <1>6 DEF qs

\* What a context switch from cur to n makes of table ps.
Switched(ps, qs, cur, n) ==
  /\ Sound(qs, n) /\ OnCpu(qs[n]) /\ ps[n].kstack # NoStack
  /\ SameKin(ps, qs) /\ NoNewReader(ps, qs)
  /\ Dead(ps[cur]) => n # cur /\ Dead(qs[cur])

\* switch_next and switch_next_force, the signal included.
LEMMA SwitchSound ==
  ASSUME NEW ps \in Table, NEW rspOk \in BOOLEAN, current_pid \in Pids, Sound(ps, current_pid)
  PROVE  Switched(ps, switch_next(ps, rspOk), current_pid, next_pid(ps))
<1> DEFINE a == Preempt(ps, current_pid)
           n == next_pid(ps)
           b == Dispatch(a, n)
           c == deliver_signal(b, n, rspOk)
<1>1. /\ \A p \in Pids : Fit(a[p]) /\ a[p].state # "Running"
      /\ IdleFit(a) /\ SameKin(ps, a) /\ NoNewReader(ps, a) /\ SameStacks(ps, a)
      /\ ps[current_pid].state # "Running" => a = ps
  BY Zenon, PreemptSound
<1>2. a \in Table
  BY Zenon, PreemptTable
<1>3. n = find_next_ready(a, current_pid)
  BY Zenon DEF next_pid
<1> HIDE DEF a, n
<1>4. n \in Pids /\ a[n].state = "Ready" /\ a[n].kstack # NoStack /\ a[n].wake = NoWake
  BY Zenon, <1>1, <1>3, FoundCanRun
<1>5. /\ Sound(b, n) /\ OnCpu(b[n]) /\ b[n].state = "Running"
      /\ SameKin(a, b) /\ NoNewReader(a, b)
      /\ \A p \in Pids \ {n} : b[p] = a[p]
  BY Zenon, <1>1, <1>2, <1>4, DispatchSound
<1>6. b \in Table
  BY Zenon, <1>2, <1>4, DispatchTable
<1> HIDE DEF b
<1>7. Gentle(b, c)
  BY Zenon, <1>4, <1>5, <1>6, DeliverSignalGentle DEF Sound
<1> HIDE DEF c
<1>8. Sound(c, n) /\ OnCpu(c[n])
  BY Zenon, <1>4, <1>5, <1>7, GentleSound DEF Gentle, Eased
<1>9. SameKin(ps, c) /\ NoNewReader(ps, c)
  BY <1>1, <1>5, <1>7, GentleKin DEF SameKin, NoNewReader
<1>10. ps[n].kstack # NoStack
  BY Zenon, <1>1, <1>4 DEF SameStacks
<1>11. ASSUME Dead(ps[current_pid])
       PROVE  n # current_pid /\ Dead(c[current_pid])
  <2>1. a = ps
    BY Zenon, <1>1, <1>11 DEF Dead
  <2>2. n # current_pid
    BY Zenon, <1>4, <1>11, <2>1 DEF Dead
  <2>3. Dead(b[current_pid])
    BY Zenon, <1>5, <1>11, <2>1, <2>2
  <2> QED
    BY Zenon, <1>7, <2>2, <2>3 DEF Gentle, Eased
<1>12. Switched(ps, c, current_pid, n)
  BY Zenon, <1>8, <1>9, <1>10, <1>11 DEF Switched
<1> QED
  BY Zenon, <1>12 DEF a, b, c, n, switch_next

\* context_switch::defer_free after a switch away from cur: whoever loses its
\* stack there is dead and off the CPU.
LEMMA DeferSound ==
  ASSUME NEW ps \in Table, NEW qs \in Table, NEW cur \in UserPids, NEW n \in Pids, NEW k,
         Switched(ps, qs, cur, n), SameStacks(ps, qs), defer_free(qs, cur, k),
         k # NoStack => Dead(ps[cur])
  PROVE  /\ Sound(procs', n) /\ OnCpu(procs'[n])
         /\ procs'[n].kstack = ps[n].kstack /\ ps[n].kstack # NoStack
         /\ SameKin(ps, procs') /\ NoNewReader(ps, procs')
<1>0. cur \in Pids /\ cur # IdlePid /\ IdlePid \in Pids
  BY Zenon, IdleSlot
<1>1. CASE procs' = qs
  BY Zenon, <1>1 DEF Switched, SameStacks
<1>2. CASE k # NoStack /\ procs' = [qs EXCEPT ![cur].kstack = NoStack]
  <2> DEFINE b == [qs[cur] EXCEPT !.kstack = NoStack]
  <2>1. n # cur /\ Dead(qs[cur])
    BY Zenon, <1>2 DEF Switched
  <2>2. qs[cur] \in Process
    BY Zenon, <1>0 DEF Table
  <2>3. /\ b.state = qs[cur].state /\ b.wake = qs[cur].wake /\ b.parent = qs[cur].parent
        /\ b.parent_gen = qs[cur].parent_gen
    BY Zenon, <2>2 DEF Process
  <2>4. \A p \in Pids : procs'[p] = IF p = cur THEN b ELSE qs[p]
    BY Zenon, <1>2 DEF Table
  <2> HIDE DEF b
  <2>5. Fit(b) /\ ~Reading(b) /\ b.state = "Zombie"
    BY Zenon, <2>1, <2>3 DEF Dead, Fit, Reading
  <2>6. Sound(procs', n)
    BY Zenon, <1>0, <2>1, <2>4, <2>5 DEF Switched, Sound, IdleFit
  <2>7. SameKin(ps, procs') /\ NoNewReader(ps, procs')
    BY ZenonT(40), <2>3, <2>4, <2>5 DEF Switched, SameKin, NoNewReader
  <2>8. procs'[n] = qs[n]
    BY Zenon, <2>1, <2>4
  <2> QED
    BY Zenon, <2>6, <2>7, <2>8 DEF Switched, SameStacks
<1> QED
  BY Zenon, <1>1, <1>2 DEF defer_free

-----------------------------------------------------------------------------
(* The invariant *)

\* No process is its own child, and init is nobody's child and in its slot.
Kin(ps) ==
  /\ \A p \in Pids : ps[p].parent = p => ps[p].parent_gen # generations[p]
  /\ ps[INIT_PID].state # "Empty" /\ ps[INIT_PID].parent = NoPid

\* The same, as far as kernel_main has come.
Family ==
  /\ \A p \in Pids : procs[p].parent = p => procs[p].parent_gen # generations[p]
  /\ boot \in {"shell", "run"} => INIT_PID \in UserPids /\ Kin(procs)
  /\ boot # "run" => current_pid = NoPid

\* The process on the CPU may be there and is on its own stack.
OnStack ==
  current_pid # NoPid =>
    OnCpu(procs[current_pid]) /\ rsp0 = procs[current_pid].kstack /\ rsp0 # NoStack

\* The inductive invariant: stacks are owned once, the slots are sound, and the
\* process on the CPU is on its own stack.
CpuInv == Inv /\ Sound(procs, current_pid) /\ OnStack /\ Family /\ NoLostConsoleWake

\* What a step has to show beyond Inv'.
CpuNext == Sound(procs, current_pid)' /\ OnStack' /\ Family' /\ NoLostConsoleWake'

\* A table with the same families.
LEMMA KinSame ==
  ASSUME NEW ps, NEW qs, SameKin(ps, qs), Kin(ps), INIT_PID \in Pids
  PROVE  Kin(qs)
BY Zenon DEF SameKin, Kin

\* Whoever is in a system call is alive or a Zombie on the CPU, with its stack.
LEMMA Caller ==
  ASSUME CpuInv, boot = "run", current_pid \in Pids
  PROVE  /\ procs \in Table /\ INIT_PID \in UserPids /\ INIT_PID \in Pids /\ Kin(procs)
         /\ Sound(procs, current_pid) /\ OnCpu(procs[current_pid])
         /\ procs[current_pid].kstack # NoStack /\ procs[current_pid].state # "Empty"
         /\ procs[current_pid] \in Process
<1>1. current_pid # NoPid
  BY SchedulerAssumption DEF Pids, NoPid
<1> QED
  BY Zenon, <1>1, IdleSlot DEF CpuInv, Inv, TypeOK, Table, Family, OnStack, OnCpu

\* The end of a system call that left table ps.
LEMMA ReturnCpu ==
  ASSUME CpuInv, boot = "run", current_pid \in UserPids,
         NEW ps \in Table, NEW force \in BOOLEAN, syscall_return(ps, force),
         Sound(ps, current_pid), Kin(ps), ps[current_pid].kstack # NoStack,
         force \/ (OnCpu(ps[current_pid]) /\ ps[current_pid].kstack = procs[current_pid].kstack),
         ps[current_pid].state = "Zombie" => ps[current_pid].wake = NoWake,
         \A p \in Pids : Reading(ps[p]) /\ line_ready' => KEYBOARD_WAKE_PENDING,
         UNCHANGED <<generations, INIT_PID, KEYBOARD_WAKE_PENDING, boot>>
  PROVE  CpuNext
<1>0. current_pid \in Pids /\ INIT_PID \in UserPids /\ INIT_PID \in Pids
  BY Zenon, Caller, IdleSlot
<1>1. CASE force \/ force_switch
  <2> DEFINE k == IF ps[current_pid].state = "Zombie" THEN ps[current_pid].kstack ELSE NoStack
             n == next_pid(ps)
  <2>1. PICK rspOk \in BOOLEAN : defer_free(switch_next(ps, rspOk), current_pid, k)
    BY Zenon, <1>1 DEF syscall_return, schedule_force
  <2> DEFINE qs == switch_next(ps, rspOk)
  <2>2. n \in Pids /\ qs \in Table /\ SameStacks(ps, qs)
    BY Zenon, <1>0, SwitchNextTable
  <2>3. Switched(ps, qs, current_pid, n)
    BY Zenon, <1>0, SwitchSound
  <2>4. k # NoStack => Dead(ps[current_pid])
    BY Zenon DEF Dead
  <2>5. current_pid' = n /\ rsp0' = ps[n].kstack
    BY Zenon, <1>1 DEF syscall_return, schedule_force
  <2>6. defer_free(qs, current_pid, k)
    BY Zenon, <2>1
  <2> HIDE DEF k, n, qs
  <2>7. /\ Sound(procs', n) /\ OnCpu(procs'[n])
        /\ procs'[n].kstack = ps[n].kstack /\ ps[n].kstack # NoStack
        /\ SameKin(ps, procs') /\ NoNewReader(ps, procs')
    BY Zenon, <2>2, <2>3, <2>4, <2>6, DeferSound
  <2>8. Kin(procs')
    BY Zenon, <1>0, <2>7, KinSame
  <2>9. Family'
    BY Zenon, <1>0, <2>8 DEF Family, Kin
  <2>10. NoLostConsoleWake'
    BY Zenon, <2>7 DEF NoLostConsoleWake, NoNewReader, Reading
  <2> QED
    BY Zenon, <2>5, <2>7, <2>9, <2>10 DEF CpuNext, OnStack
<1>2. CASE ~(force \/ force_switch)
  <2>1. procs' = ps /\ UNCHANGED <<current_pid, rsp0>>
    BY Zenon, <1>2 DEF syscall_return
  <2>2. Family'
    BY Zenon, <1>0, <2>1 DEF Family, Kin
  <2>3. NoLostConsoleWake'
    BY Zenon, <2>1 DEF NoLostConsoleWake, Reading
  <2>4. OnStack'
    BY Zenon, <1>2, <2>1 DEF CpuInv, OnStack
  <2> QED
    BY Zenon, <2>1, <2>2, <2>3, <2>4 DEF CpuNext
<1> QED
  BY Zenon, <1>1, <1>2

-----------------------------------------------------------------------------
(* System calls *)

\* The caller goes to sleep until w.
LEMMA BlockCpu ==
  ASSUME CpuInv, boot = "run", current_pid \in UserPids, NEW w \in WakeReason, w # NoWake,
         syscall_return(BlockOn(procs, current_pid, w), TRUE),
         w = Keyboard => ~line_ready,
         UNCHANGED <<generations, INIT_PID, KEYBOARD_WAKE_PENDING, line_ready, boot>>
  PROVE  CpuNext
<1> DEFINE me == procs[current_pid]
           b == [me EXCEPT !.state = "Blocked", !.wake = w]
           ps == BlockOn(procs, current_pid, w)
<1>0. current_pid \in Pids /\ current_pid # IdlePid /\ IdlePid \in Pids
  BY Zenon, IdleSlot
<1>1. /\ procs \in Table /\ INIT_PID \in Pids /\ Kin(procs) /\ Sound(procs, current_pid)
      /\ me.kstack # NoStack /\ me.state # "Empty" /\ me \in Process
  BY Zenon, <1>0, Caller
<1>2. ps \in Table
  BY Zenon, <1>0, <1>1, BlockOnTable
<1>3. /\ b.state = "Blocked" /\ b.wake = w /\ b.parent = me.parent
      /\ b.parent_gen = me.parent_gen /\ b.kstack = me.kstack
  BY Zenon, <1>1 DEF Process
<1>4. \A p \in Pids : ps[p] = IF p = current_pid THEN b ELSE procs[p]
  BY Zenon, <1>1 DEF BlockOn, Table
<1>5. syscall_return(ps, TRUE)
  BY Zenon
<1>6. \A p \in Pids : procs[p].state = "Blocked" /\ procs[p].wake = Keyboard /\ line_ready =>
                        KEYBOARD_WAKE_PENDING
  BY Zenon DEF CpuInv, NoLostConsoleWake
<1> HIDE DEF b, ps
<1>7. Fit(b)
  BY Zenon, <1>1, <1>3 DEF Fit
<1>8. Sound(ps, current_pid)
  BY Zenon, <1>0, <1>1, <1>3, <1>4, <1>7 DEF Sound, IdleFit
<1>9. SameKin(procs, ps)
  BY Zenon, <1>1, <1>3, <1>4 DEF SameKin
<1>10. Kin(ps)
  BY Zenon, <1>1, <1>9, KinSame
<1>11. \A p \in Pids : Reading(ps[p]) /\ line_ready' => KEYBOARD_WAKE_PENDING
  BY Zenon, <1>3, <1>4, <1>6 DEF Reading
<1>12. ps[current_pid].kstack # NoStack /\ ps[current_pid].state # "Zombie"
  BY Zenon, <1>0, <1>1, <1>3, <1>4
<1> QED
  BY Zenon, <1>2, <1>5, <1>8, <1>10, <1>11, <1>12, ReturnCpu

\* A call that returns to its caller, with or without a switch, having changed the
\* table gently.
LEMMA GentleCpu ==
  ASSUME CpuInv, boot = "run", current_pid \in UserPids, NEW ps \in Table, NEW force \in BOOLEAN,
         Gentle(procs, ps), syscall_return(ps, force), line_ready' => line_ready,
         UNCHANGED <<generations, INIT_PID, KEYBOARD_WAKE_PENDING, boot>>
  PROVE  CpuNext
<1>0. current_pid \in Pids
  BY Zenon, IdleSlot
<1>1. /\ INIT_PID \in Pids /\ Kin(procs) /\ Sound(procs, current_pid)
      /\ OnCpu(procs[current_pid]) /\ procs[current_pid].kstack # NoStack
  BY Zenon, <1>0, Caller
<1>2. Sound(ps, current_pid) /\ SameKin(procs, ps) /\ NoNewReader(procs, ps)
  BY Zenon, <1>1, GentleSound, GentleKin
<1>3. Kin(ps)
  BY Zenon, <1>1, <1>2, KinSame
<1>4. OnCpu(ps[current_pid]) /\ ps[current_pid].kstack = procs[current_pid].kstack
  BY Zenon, <1>0, <1>1 DEF Gentle, Eased
<1>5. \A p \in Pids : Reading(ps[p]) /\ line_ready' => KEYBOARD_WAKE_PENDING
  BY Zenon, <1>2 DEF CpuInv, NoLostConsoleWake, NoNewReader, Reading
<1>6. ps[current_pid].kstack # NoStack /\ ps[current_pid].wake = NoWake
  BY Zenon, <1>1, <1>4 DEF OnCpu
<1> QED
  BY Zenon, <1>2, <1>3, <1>4, <1>5, <1>6, ReturnCpu

\* reparent_orphans_to_init, then the caller is a Zombie: it is dead, init is still
\* nobody's child, and no process has become its own.
LEMMA DyingSound ==
  ASSUME CpuInv, boot = "run", current_pid \in UserPids
  PROVE  LET ps == reparent_orphans_to_init(procs, current_pid)
             dead == [ps EXCEPT ![current_pid].state = "Zombie"]
         IN /\ Sound(dead, current_pid) /\ Kin(dead) /\ Dead(dead[current_pid])
            /\ dead[current_pid].kstack # NoStack /\ NoNewReader(procs, dead)
<1> DEFINE ps == reparent_orphans_to_init(procs, current_pid)
           dead == [ps EXCEPT ![current_pid].state = "Zombie"]
           mine(p) == IsSome(procs, p) /\ procs[p].parent = current_pid
           r(p) == [procs[p] EXCEPT !.parent = INIT_PID,
                                    !.parent_gen = generations[INIT_PID],
                                    !.orphaned = FALSE]
<1>0. current_pid \in Pids /\ current_pid # IdlePid /\ IdlePid \in Pids
      /\ current_pid # NoPid
  BY IdleSlot, SchedulerAssumption DEF UserPids, NoPid
<1>1. /\ procs \in Table /\ INIT_PID \in Pids /\ Kin(procs) /\ Sound(procs, current_pid)
      /\ procs[current_pid].kstack # NoStack /\ procs[current_pid].state # "Empty"
      /\ OnCpu(procs[current_pid])
  BY Zenon, <1>0, Caller
<1>2. ps \in Table /\ dead \in Table /\ SameStacks(procs, ps)
  <2>1. TypeOK /\ generations \in [Pids -> Nat]
    BY Zenon DEF CpuInv, Inv, TypeOK
  <2>2. ps \in Table /\ SameStacks(procs, ps)
    BY Zenon, <1>1, <2>1, ReparentTable
  <2>3. dead \in Table
    BY Zenon, <1>0, <2>1, DyingTable
  <2> QED
    BY Zenon, <2>2, <2>3
<1>3. \A p \in Pids : ps[p] = IF mine(p) THEN r(p) ELSE procs[p]
  BY Zenon DEF reparent_orphans_to_init
<1>4. \A p \in Pids : /\ r(p).state = procs[p].state /\ r(p).wake = procs[p].wake
                      /\ r(p).kstack = procs[p].kstack /\ r(p).parent = INIT_PID
                      /\ r(p).parent_gen = generations[INIT_PID]
  BY <1>1 DEF Table, Process
<1> HIDE DEF ps, r
<1>5. \A p \in Pids : ps[p].state = procs[p].state /\ ps[p].wake = procs[p].wake
                      /\ ps[p].kstack = procs[p].kstack
  BY Zenon, <1>3, <1>4
<1>6. \A p \in Pids : \/ ps[p].parent = procs[p].parent /\ ps[p].parent_gen = procs[p].parent_gen
                      \/ procs[p].parent = current_pid /\ ps[p].parent = INIT_PID
  BY Zenon, <1>3, <1>4
<1>7. \A p \in Pids : /\ dead[p].state = IF p = current_pid THEN "Zombie" ELSE ps[p].state
                      /\ dead[p].wake = ps[p].wake /\ dead[p].kstack = ps[p].kstack
                      /\ dead[p].parent = ps[p].parent /\ dead[p].parent_gen = ps[p].parent_gen
  BY <1>2 DEF Table, Process
<1> HIDE DEF dead, mine
<1>8. procs[current_pid].wake = NoWake
  BY Zenon, <1>1 DEF OnCpu
<1>9. \A p \in Pids : Fit(dead[p])
  BY SMTT(30), <1>0, <1>1, <1>5, <1>7, <1>8 DEF Sound, Fit
<1>10. Sound(dead, current_pid)
  BY SMTT(30), <1>0, <1>1, <1>5, <1>7, <1>9 DEF Sound, IdleFit
<1>11. Kin(dead)
  <2>1. procs[INIT_PID].parent = NoPid /\ procs[INIT_PID].state # "Empty"
    BY Zenon, <1>1 DEF Kin
  <2>2. dead[INIT_PID].parent = NoPid /\ dead[INIT_PID].state # "Empty"
    BY <1>0, <1>1, <1>5, <1>6, <1>7, <2>1
  <2>3. ASSUME NEW p \in Pids, dead[p].parent = p
        PROVE  dead[p].parent_gen # generations[p]
    <3>1. p # INIT_PID
      BY <2>2, <2>3, SchedulerAssumption DEF Pids, NoPid
    <3>2. procs[p].parent = p /\ dead[p].parent_gen = procs[p].parent_gen
      BY Zenon, <1>6, <1>7, <2>3, <3>1
    <3> QED
      BY Zenon, <1>1, <3>2 DEF Kin
  <2> QED
    BY Zenon, <2>2, <2>3 DEF Kin
<1>12. Dead(dead[current_pid]) /\ dead[current_pid].kstack # NoStack
  BY Zenon, <1>0, <1>1, <1>5, <1>7, <1>8 DEF Dead
<1>13. NoNewReader(procs, dead)
  BY Zenon, <1>5, <1>7 DEF NoNewReader, Reading
<1> QED
  BY Zenon, <1>10, <1>11, <1>12, <1>13 DEF dead, ps

\* reap_zombie of somebody else's slot, a Zombie's, which is not init's.
LEMMA ReapSound ==
  ASSUME NEW ps \in Table, NEW cur \in UserPids, NEW z \in Pids, z # cur, z # INIT_PID,
         INIT_PID \in Pids, Sound(ps, cur), Kin(ps), ps[z].state = "Zombie"
  PROVE  LET qs == reap_zombie(ps, z)
         IN Sound(qs, cur) /\ Kin(qs) /\ NoNewReader(ps, qs)
<1> DEFINE qs == reap_zombie(ps, z)
           o(p) == [ps[p] EXCEPT !.orphaned = TRUE]
<1>0. IdlePid \in Pids /\ z # IdlePid /\ \A p \in Pids : p # NoPid
  BY IdleSlot, SchedulerAssumption DEF Sound, IdleFit, Pids, NoPid
<1>1. \A p \in Pids : qs[p] \in IF p = z THEN {EmptySlot} ELSE {ps[p], o(p)}
  BY Zenon DEF reap_zombie
<1>2. \A p \in Pids : /\ o(p).state = ps[p].state /\ o(p).wake = ps[p].wake
                      /\ o(p).parent = ps[p].parent /\ o(p).parent_gen = ps[p].parent_gen
                      /\ o(p).kstack = ps[p].kstack
  BY Zenon DEF Table, Process
<1>3. EmptySlot.state = "Empty" /\ EmptySlot.parent = NoPid
  BY Zenon DEF EmptySlot, NewProcess
<1> HIDE DEF qs, o
<1>4. \A p \in Pids : p # z => /\ qs[p].state = ps[p].state /\ qs[p].wake = ps[p].wake
                               /\ qs[p].parent = ps[p].parent
                               /\ qs[p].parent_gen = ps[p].parent_gen
                               /\ qs[p].kstack = ps[p].kstack
  BY Zenon, <1>1, <1>2
<1>5. qs[z].state = "Empty" /\ qs[z].parent = NoPid
  BY Zenon, <1>1, <1>3
<1>6. Sound(qs, cur)
  BY <1>0, <1>4, <1>5 DEF Sound, IdleFit, Fit
<1>7. Kin(qs)
  BY <1>0, <1>4, <1>5 DEF Kin
<1>8. NoNewReader(ps, qs)
  BY Zenon, <1>4, <1>5 DEF NoNewReader, Reading
<1> QED
  BY Zenon, <1>6, <1>7, <1>8 DEF qs

\* sys_waitpid: the child it reaps is neither the caller nor init.
LEMMA WaitpidCpu ==
  ASSUME CpuInv, boot = "run", current_pid \in UserPids, NEW c \in Pids, NEW WNOHANG \in BOOLEAN,
         NEW WUNTRACED \in BOOLEAN, waitpid(c, WNOHANG, WUNTRACED),
         UNCHANGED <<generations, INIT_PID, tick_counter, KEYBOARD_WAKE_PENDING,
                     line_ready, boot>>
  PROVE  CpuNext
<1> DEFINE zombies == IF c = 0 THEN ZombieChildren(current_pid)
                      ELSE ZombieChildren(current_pid) \cap {c}
<1>0. current_pid \in Pids /\ \A p \in Pids : p # NoPid
  BY IdleSlot, SchedulerAssumption DEF Pids, NoPid
<1>1. /\ procs \in Table /\ INIT_PID \in Pids /\ Kin(procs) /\ Sound(procs, current_pid)
      /\ procs[current_pid].kstack # NoStack /\ OnCpu(procs[current_pid])
  BY Zenon, <1>0, Caller
<1>2. CASE zombies # {} /\ Reap(Least(zombies))
  <2> DEFINE z == Least(zombies)
             ps == reap_zombie(procs, z)
  <2>1. zombies \subseteq Nat /\ zombies \subseteq ZombieChildren(current_pid)
    BY SchedulerAssumption DEF ZombieChildren, Children, Pids
  <2>2. z \in ZombieChildren(current_pid)
    BY Zenon, <1>2, <2>1, LeastProperty
  <2>3. syscall_return(ps, FALSE)
    BY Zenon, <1>2 DEF Reap
  <2> HIDE DEF z
  <2>4. /\ z \in Pids /\ procs[z].state = "Zombie" /\ procs[z].parent = current_pid
        /\ procs[z].parent_gen = generations[current_pid]
    BY Zenon, <2>2 DEF ZombieChildren, Children, is_child_of
  <2>5. z # current_pid /\ z # INIT_PID
    BY Zenon, <1>0, <1>1, <2>4 DEF Kin
  <2>6. Sound(ps, current_pid) /\ Kin(ps) /\ NoNewReader(procs, ps)
    BY Zenon, <1>1, <2>4, <2>5, ReapSound
  <2>7. ps \in Table /\ ps[current_pid].kstack = procs[current_pid].kstack
    BY SMTT(30), <1>0, <1>1, <2>4, <2>5, ReapZombieTable
  <2>8. OnCpu(ps[current_pid])
    <3>1. \/ ps[current_pid] = procs[current_pid]
          \/ ps[current_pid] = [procs[current_pid] EXCEPT !.orphaned = TRUE]
      BY Zenon, <1>0, <2>5 DEF reap_zombie
    <3>2. /\ [procs[current_pid] EXCEPT !.orphaned = TRUE].state = procs[current_pid].state
          /\ [procs[current_pid] EXCEPT !.orphaned = TRUE].wake = procs[current_pid].wake
      BY Zenon, <1>0, <1>1 DEF Table, Process
    <3> HIDE DEF ps
    <3> QED
      BY Zenon, <1>1, <3>1, <3>2 DEF OnCpu
  <2> HIDE DEF ps
  <2>9. \A p \in Pids : Reading(ps[p]) /\ line_ready' => KEYBOARD_WAKE_PENDING
    BY Zenon, <2>6 DEF CpuInv, NoLostConsoleWake, NoNewReader, Reading
  <2>10. ps[current_pid].kstack # NoStack /\ ps[current_pid].wake = NoWake
    BY Zenon, <1>1, <2>7, <2>8 DEF OnCpu
  <2> QED
    BY Zenon, <2>3, <2>6, <2>7, <2>8, <2>9, <2>10, ReturnCpu
<1>3. CASE syscall_return(procs, FALSE)
  BY Zenon, <1>1, <1>3, GentleSame, GentleCpu DEF Sound
<1>4. CASE BlockFor(c)
  <2>1. WaitForChild(c) \in WakeReason /\ WaitForChild(c) # NoWake /\ WaitForChild(c) # Keyboard
    BY SchedulerAssumption DEF WaitForChild, WakeReason, Pids, NoWake, Keyboard
  <2> QED
    BY Zenon, <1>4, <2>1, BlockCpu DEF BlockFor
<1> QED
  BY Zenon, <1>2, <1>3, <1>4 DEF waitpid

\* A new process in a free slot, not made its own child.
LEMMA NewSound ==
  ASSUME NEW ps \in Table, NEW cur, NEW c \in UserPids, ps[c].state = "Empty", c # cur,
         Sound(ps, cur), NEW b \in Process,
         b.state = "Ready", b.wake = NoWake, b.kstack # NoStack
  PROVE  LET qs == [ps EXCEPT ![c] = b]
         IN Sound(qs, cur) /\ NoNewReader(ps, qs) /\ \A p \in Pids : qs[p] = IF p = c THEN b ELSE ps[p]
<1> DEFINE qs == [ps EXCEPT ![c] = b]
<1>0. c \in Pids /\ IdlePid \in Pids /\ c # IdlePid
  BY Zenon, IdleSlot
<1>1. \A p \in Pids : qs[p] = IF p = c THEN b ELSE ps[p]
  BY Zenon DEF Table
<1> HIDE DEF qs
<1>2. Sound(qs, cur)
  BY Zenon, <1>0, <1>1 DEF Sound, Fit, IdleFit
<1>3. NoNewReader(ps, qs)
  BY Zenon, <1>1 DEF NoNewReader, Reading
<1> QED
  BY Zenon, <1>1, <1>2, <1>3 DEF qs

\* sys_fork: the child takes a free slot, which is not the caller's.
LEMMA ForkCpu ==
  ASSUME CpuInv, boot = "run", current_pid \in UserPids, sys_fork
  PROVE  CpuNext
<1>0. current_pid \in Pids /\ UNCHANGED <<generations, INIT_PID, KEYBOARD_WAKE_PENDING, line_ready, boot>>
  BY Zenon, IdleSlot DEF sys_fork
<1>1. /\ procs \in Table /\ INIT_PID \in Pids /\ Kin(procs) /\ Sound(procs, current_pid)
      /\ procs[current_pid].kstack # NoStack /\ OnCpu(procs[current_pid])
      /\ procs[current_pid] \in Process
  BY Zenon, <1>0, Caller
<1>2. CASE syscall_return(procs, FALSE)
  BY Zenon, <1>0, <1>1, <1>2, GentleSame, GentleCpu DEF Sound
<1>3. ASSUME NEW k \in alloc_kernel_stack, FreeSlots(procs) # {},
             syscall_return([procs EXCEPT ![Least(FreeSlots(procs))] = ForkChild(k)], FALSE)
      PROVE  CpuNext
  <2> DEFINE c == Least(FreeSlots(procs))
             b == ForkChild(k)
             ps == [procs EXCEPT ![c] = b]
  <2>1. c \in UserPids /\ c \in Pids /\ procs[c].state = "Empty"
    BY Zenon, <1>3, FirstFreeSlot, IdleSlot DEF FreeSlots, IsSome
  <2>2. c # current_pid /\ c # INIT_PID
    BY Zenon, <1>1, <2>1 DEF OnCpu, Kin
  <2>3. k \in Stacks /\ k # NoStack
    BY FreshStack, SchedulerAssumption DEF Stacks, NoStack
  <2>4. procs[current_pid].gen \in Nat /\ procs[current_pid].pgid \in Nat
    BY Zenon, <1>1 DEF Process
  <2>5. b \in Process
    BY Zenon, <1>0, <2>3, <2>4, NewProcessType DEF ForkChild
  <2>6. b.state = "Ready" /\ b.wake = NoWake /\ b.kstack = k /\ b.parent = current_pid
    BY Zenon DEF ForkChild, NewProcess
  <2> HIDE DEF c, b
  <2>a. b.kstack # NoStack
    BY Zenon, <2>3, <2>6
  <2>7. /\ Sound(ps, current_pid) /\ NoNewReader(procs, ps)
        /\ \A p \in Pids : ps[p] = IF p = c THEN b ELSE procs[p]
    BY SMTT(30), <1>1, <2>1, <2>2, <2>5, <2>6, <2>a, NewSound
  <2>8. ps \in Table
    BY Zenon, <1>1, <2>5 DEF Table
  <2>9. syscall_return(ps, FALSE)
    BY Zenon, <1>3 DEF c, b
  <2> HIDE DEF ps
  <2>10. Kin(ps)
    BY Zenon, <1>1, <2>2, <2>6, <2>7 DEF Kin
  <2>11. \A p \in Pids : Reading(ps[p]) /\ line_ready' => KEYBOARD_WAKE_PENDING
    BY Zenon, <1>0, <2>7 DEF CpuInv, NoLostConsoleWake, NoNewReader, Reading
  <2>12. ps[current_pid] = procs[current_pid]
    BY Zenon, <1>0, <2>2, <2>7
  <2>13. procs[current_pid].wake = NoWake
    BY Zenon, <1>1 DEF OnCpu
  <2> QED
    BY Zenon, <1>0, <1>1, <2>7, <2>8, <2>9, <2>10, <2>11, <2>12, <2>13, ReturnCpu
<1> QED
  BY Zenon, <1>2, <1>3 DEF sys_fork

\* The process in a system call is a user's.
LEMMA UserCaller ==
  ASSUME CpuInv, Syscall \/ kill_process
  PROVE  boot = "run" /\ current_pid \in UserPids
<1>1. boot = "run" /\ (current_pid \notin {NoPid, IdlePid} \/ current_pid = INIT_PID)
  <2>1. CASE init_main
    BY Zenon, <2>1 DEF init_main, Live
  <2>2. CASE \E op : Program(op)
    BY Zenon, <2>2 DEF Program, Live
  <2>3. init_main \/ \E op : Program(op)
    BY Zenon DEF Syscall, sys_exit, sys_yield, sys_sleep, sys_waitpid, sys_read, sys_fork,
                 sys_kill, sys_sigaction, sys_setpgid, kill_process
  <2> QED
    BY Zenon, <2>1, <2>2, <2>3
<1>2. current_pid \in Pids \cup {NoPid} /\ (boot = "run" => INIT_PID \in UserPids)
  BY Zenon DEF CpuInv, Inv, TypeOK, Family
<1>3. \A p \in Pids : p # IdlePid => p \in UserPids
  BY SchedulerAssumption DEF Pids, UserPids, IdlePid
<1> QED
  BY Zenon, <1>1, <1>2, <1>3

\* One slot changes in a field that has nothing to do with running.
LEMMA FieldGentle ==
  ASSUME NEW ps \in Table, \A q \in Pids : Fit(ps[q]), NEW p \in Pids, NEW b \in Process,
         b.state = ps[p].state, b.wake = ps[p].wake, b.parent = ps[p].parent,
         b.parent_gen = ps[p].parent_gen, b.kstack = ps[p].kstack
  PROVE  [ps EXCEPT ![p] = b] \in Table /\ Gentle(ps, [ps EXCEPT ![p] = b])
<1>1. Eased(ps[p], b)
  BY Zenon DEF Eased, Fit, OnCpu, Reading, Dead
<1>2. Gentle(ps, [ps EXCEPT ![p] = b])
  BY Zenon, <1>1, GentleOne
<1> QED
  BY Zenon, <1>2 DEF Table

\* Every system call leaves the CPU to a process that may have it, on its own stack.
LEMMA SyscallCpu ==
  ASSUME CpuInv, Syscall
  PROVE  CpuNext
<1>0. boot = "run" /\ current_pid \in UserPids /\ current_pid \in Pids
  BY Zenon, UserCaller, IdleSlot
<1>1. /\ procs \in Table /\ INIT_PID \in Pids /\ Kin(procs) /\ Sound(procs, current_pid)
      /\ procs[current_pid].kstack # NoStack /\ OnCpu(procs[current_pid])
      /\ procs[current_pid] \in Process
  BY Zenon, <1>0, Caller
<1>a. Gentle(procs, procs) /\ \A p \in Pids : Fit(procs[p])
  BY Zenon, <1>1, GentleSame DEF Sound
<1>2. CASE sys_exit
  <2> DEFINE ps == reparent_orphans_to_init(procs, current_pid)
             dead == [ps EXCEPT ![current_pid].state = "Zombie"]
             qs == wake_wait_for_child(dead, current_pid)
  <2>1. dead \in Table
    BY Zenon, <1>0, DyingTable DEF CpuInv, Inv
  <2>2. syscall_return(qs, TRUE)
    BY Zenon, <1>2 DEF sys_exit
  <2>3. /\ Sound(dead, current_pid) /\ Kin(dead) /\ Dead(dead[current_pid])
        /\ dead[current_pid].kstack # NoStack /\ NoNewReader(procs, dead)
    BY Zenon, <1>0, DyingSound
  <2> HIDE DEF dead
  <2>4. qs \in Table /\ Gentle(dead, qs)
    BY Zenon, <2>1, <2>3, WakeWaitForChildTable, WakeWaitForChildGentle DEF Sound
  <2> HIDE DEF qs
  <2>5. Sound(qs, current_pid) /\ SameKin(dead, qs) /\ NoNewReader(dead, qs)
    BY Zenon, <2>3, <2>4, GentleSound, GentleKin
  <2>6. Kin(qs)
    BY Zenon, <1>1, <2>3, <2>5, KinSame
  <2>7. qs[current_pid].kstack # NoStack /\ qs[current_pid].wake = NoWake
    BY Zenon, <1>0, <2>3, <2>4 DEF Gentle, Eased, Dead
  <2>8. \A p \in Pids : Reading(qs[p]) /\ line_ready' => KEYBOARD_WAKE_PENDING
    BY Zenon, <1>2, <2>3, <2>5 DEF sys_exit, CpuInv, NoLostConsoleWake, NoNewReader, Reading
  <2> QED
    BY Zenon, <1>0, <1>2, <2>2, <2>4, <2>5, <2>6, <2>7, <2>8, ReturnCpu DEF sys_exit
<1>3. CASE sys_yield
  BY Zenon, <1>0, <1>1, <1>a, <1>3, GentleCpu DEF sys_yield
<1>4. CASE sys_sleep
  <2>1. PICK n \in 0..MaxSleep : syscall_return(BlockOn(procs, current_pid, Sleep(n)), TRUE)
    BY Zenon, <1>4 DEF sys_sleep
  <2>2. Sleep(n) \in WakeReason /\ Sleep(n) # NoWake /\ Sleep(n) # Keyboard
    BY SchedulerAssumption DEF Sleep, WakeReason, NoWake, Keyboard
  <2> QED
    BY Zenon, <1>0, <1>4, <2>1, <2>2, BlockCpu DEF sys_sleep
<1>5. CASE sys_waitpid
  BY Zenon, <1>0, <1>5, WaitpidCpu DEF sys_waitpid
<1>6. CASE init_main
  <2>1. 0 \in Pids
    BY SchedulerAssumption DEF Pids
  <2> QED
    BY Zenon, <1>0, <1>6, <2>1, WaitpidCpu DEF init_main
<1>7. CASE sys_read
  <2>1. Keyboard \in WakeReason /\ Keyboard # NoWake
    BY Zenon DEF Keyboard, WakeReason, NoWake
  <2>2. CASE line_ready
    BY Zenon, <1>0, <1>1, <1>a, <1>7, <2>2, GentleCpu DEF sys_read
  <2>3. CASE ~line_ready
    BY Zenon, <1>0, <1>7, <2>1, <2>3, BlockCpu DEF sys_read
  <2> QED
    BY Zenon, <2>2, <2>3
<1>8. CASE sys_fork
  BY Zenon, <1>0, <1>8, ForkCpu
<1>9. CASE sys_kill
  <2>1. PICK t \in Pids, s \in Sigs :
          \/ syscall_return(procs, FALSE)
          \/ syscall_return([procs EXCEPT ![t].pending = @ \cup {s}], FALSE)
    BY Zenon, <1>9 DEF sys_kill
  <2> DEFINE pr == [procs[t] EXCEPT !.pending = procs[t].pending \cup {s}]
             ps == [procs EXCEPT ![t].pending = @ \cup {s}]
  <2>2. /\ pr \in Process /\ pr.state = procs[t].state /\ pr.wake = procs[t].wake
        /\ pr.parent = procs[t].parent /\ pr.parent_gen = procs[t].parent_gen
        /\ pr.kstack = procs[t].kstack
    <3>1. procs[t] \in Process
      BY Zenon, <1>1 DEF Table
    <3> QED
      BY Zenon, <3>1 DEF Process
  <2>3. ps = [procs EXCEPT ![t] = pr]
    BY Zenon
  <2> HIDE DEF pr, ps
  <2>4. ps \in Table /\ Gentle(procs, ps)
    BY Zenon, <1>1, <1>a, <2>2, <2>3, FieldGentle
  <2>5. syscall_return(procs, FALSE) \/ syscall_return(ps, FALSE)
    BY Zenon, <2>1 DEF ps
  <2> QED
    BY Zenon, <1>0, <1>1, <1>a, <1>9, <2>4, <2>5, GentleCpu DEF sys_kill
<1>10. CASE sys_sigaction
  <2>1. PICK s \in Sigs, h \in Handler :
          syscall_return([procs EXCEPT ![current_pid].handlers[s] = h], FALSE)
    BY Zenon, <1>10 DEF sys_sigaction
  <2> DEFINE me == procs[current_pid]
             hs == [me.handlers EXCEPT ![s] = h]
             pr == [me EXCEPT !.handlers = hs]
             ps == [procs EXCEPT ![current_pid].handlers[s] = h]
  <2>2. /\ pr \in Process /\ pr.state = me.state /\ pr.wake = me.wake
        /\ pr.parent = me.parent /\ pr.parent_gen = me.parent_gen /\ pr.kstack = me.kstack
    <3>1. hs \in [Sigs -> Handler]
      BY Zenon, <1>1 DEF Process
    <3> HIDE DEF hs
    <3> QED
      BY Zenon, <1>1, <3>1 DEF Process
  <2>3. ps = [procs EXCEPT ![current_pid] = pr]
    BY Zenon
  <2> HIDE DEF hs, pr, ps
  <2>4. ps \in Table /\ Gentle(procs, ps)
    BY Zenon, <1>0, <1>1, <1>a, <2>2, <2>3, FieldGentle
  <2>5. syscall_return(ps, FALSE)
    BY Zenon, <2>1 DEF ps
  <2> QED
    BY Zenon, <1>0, <1>1, <1>10, <2>4, <2>5, GentleCpu DEF sys_sigaction
<1>11. CASE sys_setpgid
  <2>1. PICK t \in UserPids, g \in UserPids :
          \/ syscall_return(procs, FALSE)
          \/ syscall_return([procs EXCEPT ![t].pgid = g], FALSE)
    BY Zenon, <1>11 DEF sys_setpgid
  <2> DEFINE pr == [procs[t] EXCEPT !.pgid = g]
             ps == [procs EXCEPT ![t].pgid = g]
  <2>2. t \in Pids /\ g \in Nat
    BY SchedulerAssumption DEF UserPids, Pids
  <2>3. /\ pr \in Process /\ pr.state = procs[t].state /\ pr.wake = procs[t].wake
        /\ pr.parent = procs[t].parent /\ pr.parent_gen = procs[t].parent_gen
        /\ pr.kstack = procs[t].kstack
    <3>1. procs[t] \in Process
      BY Zenon, <1>1, <2>2 DEF Table
    <3> QED
      BY Zenon, <2>2, <3>1 DEF Process
  <2>4. ps = [procs EXCEPT ![t] = pr]
    BY Zenon
  <2> HIDE DEF pr, ps
  <2>5. ps \in Table /\ Gentle(procs, ps)
    BY Zenon, <1>1, <1>a, <2>2, <2>3, <2>4, FieldGentle
  <2>6. syscall_return(procs, FALSE) \/ syscall_return(ps, FALSE)
    BY Zenon, <2>1 DEF ps
  <2> QED
    BY Zenon, <1>0, <1>1, <1>a, <1>11, <2>5, <2>6, GentleCpu DEF sys_setpgid
<1> QED
  BY Zenon, <1>2, <1>3, <1>4, <1>5, <1>6, <1>7, <1>8, <1>9, <1>10, <1>11 DEF Syscall

-----------------------------------------------------------------------------
(* Interrupts *)

\* A fault: the process that dies is dead and off the CPU when it loses its stack.
LEMMA KillProcessCpu ==
  ASSUME CpuInv, kill_process
  PROVE  CpuNext
<1> DEFINE ps == reparent_orphans_to_init(procs, current_pid)
           dead == [ps EXCEPT ![current_pid].state = "Zombie"]
           n == find_next_ready(dead, current_pid)
           qs == Dispatch(dead, n)
           k == procs[current_pid].kstack
<1>0. boot = "run" /\ current_pid \in UserPids /\ current_pid \in Pids
  BY Zenon, UserCaller, IdleSlot
<1>1. INIT_PID \in Pids /\ INIT_PID \in UserPids
  BY Zenon, <1>0, Caller
<1>2. dead \in Table /\ SameStacks(procs, dead)
  BY Zenon, <1>0, DyingTable DEF CpuInv, Inv
<1>3. /\ Sound(dead, current_pid) /\ Kin(dead) /\ Dead(dead[current_pid])
      /\ NoNewReader(procs, dead)
  BY Zenon, <1>0, DyingSound
<1>4. /\ defer_free(qs, current_pid, k) /\ current_pid' = n /\ rsp0' = procs[n].kstack
      /\ UNCHANGED <<generations, INIT_PID, KEYBOARD_WAKE_PENDING, line_ready, boot>>
  BY Zenon DEF kill_process
<1> HIDE DEF dead, ps
<1>5. \A p \in Pids : Fit(dead[p]) /\ dead[p].state # "Running"
  BY Zenon, <1>3 DEF Sound, Dead
<1>6. n \in Pids /\ dead[n].state = "Ready" /\ dead[n].kstack # NoStack /\ dead[n].wake = NoWake
  BY Zenon, <1>0, <1>3, <1>5, FoundCanRun DEF Sound
<1> HIDE DEF n
<1>7. /\ Sound(qs, n) /\ OnCpu(qs[n]) /\ SameKin(dead, qs) /\ NoNewReader(dead, qs)
      /\ \A p \in Pids \ {n} : qs[p] = dead[p]
  BY Zenon, <1>2, <1>3, <1>5, <1>6, DispatchSound DEF Sound
<1>8. qs \in Table /\ SameStacks(dead, qs)
  BY Zenon, <1>2, <1>6, DispatchTable
<1> HIDE DEF qs, k
<1>9. n # current_pid /\ Dead(qs[current_pid])
  BY Zenon, <1>0, <1>3, <1>6, <1>7 DEF Dead
<1>10. Switched(dead, qs, current_pid, n)
  BY Zenon, <1>6, <1>7, <1>9 DEF Switched
<1>11. /\ Sound(procs', n) /\ OnCpu(procs'[n])
       /\ procs'[n].kstack = dead[n].kstack /\ dead[n].kstack # NoStack
       /\ SameKin(dead, procs') /\ NoNewReader(dead, procs')
  BY Zenon, <1>0, <1>2, <1>3, <1>4, <1>6, <1>8, <1>10, DeferSound
<1>12. Kin(procs')
  BY Zenon, <1>1, <1>3, <1>11, KinSame
<1>13. Family'
  BY Zenon, <1>0, <1>1, <1>4, <1>12 DEF Family, Kin
<1>14. NoLostConsoleWake'
  BY Zenon, <1>3, <1>4, <1>11 DEF CpuInv, NoLostConsoleWake, NoNewReader, Reading
<1>15. OnStack'
  BY Zenon, <1>2, <1>4, <1>6, <1>11 DEF OnStack, SameStacks
<1> QED
  BY Zenon, <1>4, <1>11, <1>13, <1>14, <1>15 DEF CpuNext

\* The wake-ups that a timer interrupt does first reach every reader, if the console
\* interrupt asked for them; if it did not, no reader waits for a line that is there.
LEMMA AfterConsoleGentle ==
  ASSUME CpuInv
  PROVE  /\ AfterConsole \in Table /\ SameStacks(procs, AfterConsole)
         /\ Gentle(procs, AfterConsole)
         /\ \A p \in Pids : ~(Reading(AfterConsole[p]) /\ line_ready)
<1>1. procs \in Table /\ \A p \in Pids : Fit(procs[p])
  BY Zenon DEF CpuInv, Inv, TypeOK, Table, Sound
<1>2. CASE KEYBOARD_WAKE_PENDING
  BY Zenon, <1>1, <1>2, KeyboardWakeTable, KeyboardWakeGentle DEF AfterConsole
<1>3. CASE ~KEYBOARD_WAKE_PENDING
  <2>1. AfterConsole = procs
    BY Zenon, <1>3 DEF AfterConsole
  <2>2. Gentle(procs, procs) /\ SameStacks(procs, procs)
    BY Zenon, <1>1, GentleSame DEF SameStacks
  <2> QED
    BY Zenon, <1>1, <1>3, <2>1, <2>2 DEF CpuInv, NoLostConsoleWake, Reading
<1> QED
  BY Zenon, <1>2, <1>3

\* What remains of the invariant after a timer interrupt that put n on the CPU.
LEMMA ScheduleNext ==
  ASSUME CpuInv, DrainAndWake, NEW n \in Pids, current_pid' = n, rsp0' = procs[n].kstack,
         SameStacks(procs, procs'), SameKin(procs, procs'), Sound(procs', n), OnCpu(procs'[n]),
         procs[n].kstack # NoStack, NoNewReader(AfterConsole, procs')
  PROVE  CpuNext
<1>1. boot = "run" /\ UNCHANGED <<generations, INIT_PID, line_ready, boot>>
  BY Zenon DEF DrainAndWake, Live
<1>2. INIT_PID \in UserPids /\ INIT_PID \in Pids /\ Kin(procs)
  BY Zenon, <1>1, IdleSlot DEF CpuInv, Family
<1>3. Kin(procs')
  BY Zenon, <1>2, KinSame
<1>4. Family'
  BY Zenon, <1>1, <1>2, <1>3 DEF Family, Kin
<1>5. NoLostConsoleWake'
  BY Zenon, <1>1, AfterConsoleGentle DEF NoLostConsoleWake, NoNewReader, Reading
<1>6. OnStack'
  BY Zenon DEF OnStack, SameStacks
<1> QED
  BY Zenon, <1>4, <1>5, <1>6 DEF CpuNext

\* A timer interrupt, whether it dispatches, ticks or switches.
LEMMA ScheduleCpu ==
  ASSUME CpuInv, schedule
  PROVE  CpuNext
<1> DEFINE ac == AfterConsole
           ws == WakeSleepers(ac)
<1>0. /\ procs \in Table /\ Sound(procs, current_pid) /\ OnStack /\ IdlePid \in Pids
      /\ current_pid \in Pids \cup {NoPid} /\ NoPid \notin Pids
  BY IdleSlot, SchedulerAssumption DEF CpuInv, Inv, TypeOK, Table, Pids, NoPid
<1>1. ac \in Table /\ SameStacks(procs, ac) /\ Gentle(procs, ac)
  BY Zenon, AfterConsoleGentle
<1>2. NoNewReader(ac, ac) /\ SameKin(procs, ac) /\ Sound(ac, current_pid)
  BY Zenon, <1>0, <1>1, GentleSound, GentleKin DEF NoNewReader
<1>3. CASE schedule_first
  <2> DEFINE n == find_next_ready(ac, IdlePid)
             qs == Dispatch(ac, n)
  <2>1. \A p \in Pids : Fit(ac[p]) /\ ac[p].state # "Running"
    BY Zenon, <1>0, <1>2, <1>3 DEF schedule_first, Sound
  <2>2. n \in Pids /\ ac[n].state = "Ready" /\ ac[n].kstack # NoStack /\ ac[n].wake = NoWake
    BY Zenon, <1>0, <1>2, <2>1, FoundCanRun DEF Sound
  <2>3. /\ procs' = qs /\ current_pid' = n /\ rsp0' = procs[n].kstack /\ DrainAndWake
    BY Zenon, <1>3 DEF schedule_first
  <2> HIDE DEF n, ac
  <2>4. /\ Sound(qs, n) /\ OnCpu(qs[n]) /\ SameKin(ac, qs) /\ NoNewReader(ac, qs)
    BY Zenon, <1>1, <1>2, <2>1, <2>2, DispatchSound DEF Sound
  <2>5. SameStacks(ac, qs)
    BY Zenon, <1>1, <2>2, DispatchTable
  <2> HIDE DEF qs
  <2>6. SameStacks(procs, procs') /\ SameKin(procs, procs') /\ procs[n].kstack # NoStack
    BY Zenon, <1>1, <1>2, <2>2, <2>3, <2>4, <2>5 DEF SameStacks, SameKin
  <2> QED
    BY Zenon, <2>2, <2>3, <2>4, <2>6, ScheduleNext DEF ac
<1> HIDE DEF ac
<1>4. ws \in Table /\ SameStacks(ac, ws) /\ Gentle(ac, ws)
  BY Zenon, <1>1, <1>2, WakeSleepersTable, WakeSleepersGentle DEF Sound
<1> HIDE DEF ws
<1>5. SameKin(ac, ws) /\ NoNewReader(ac, ws) /\ Sound(ws, current_pid)
  BY Zenon, <1>2, <1>4, GentleSound, GentleKin
<1>6. CASE schedule_tick
  <2>1. /\ procs' = ws /\ current_pid' = current_pid /\ rsp0' = procs[current_pid].kstack
        /\ current_pid # NoPid /\ DrainAndWake
    BY Zenon, <1>6 DEF schedule_tick, ws, ac
  <2>2. current_pid \in Pids /\ OnCpu(procs[current_pid]) /\ procs[current_pid].kstack # NoStack
    BY Zenon, <1>0, <2>1 DEF OnStack
  <2>3. OnCpu(ws[current_pid])
    BY Zenon, <1>1, <1>4, <2>2 DEF Gentle, Eased
  <2>4. SameStacks(procs, procs') /\ SameKin(procs, procs')
    BY Zenon, <1>1, <1>2, <1>4, <1>5, <2>1 DEF SameStacks, SameKin
  <2> QED
    BY Zenon, <1>5, <2>1, <2>2, <2>3, <2>4, ScheduleNext DEF ac
<1>7. CASE schedule_switch
  <2> DEFINE n == next_pid(ws)
  <2>1. current_pid \in Pids
    BY Zenon, <1>0, <1>7 DEF schedule_switch
  <2>2. PICK rspOk \in BOOLEAN : procs' = switch_next(ws, rspOk)
    BY Zenon, <1>7 DEF schedule_switch, ws, ac
  <2>3. n \in Pids /\ SameStacks(ws, procs')
    BY Zenon, <1>4, <2>1, <2>2, SwitchNextTable
  <2>4. Switched(ws, procs', current_pid, n)
    BY Zenon, <1>4, <1>5, <2>1, <2>2, SwitchSound
  <2>5. current_pid' = n /\ rsp0' = procs[n].kstack /\ DrainAndWake
    BY Zenon, <1>7 DEF schedule_switch, ws, ac
  <2> HIDE DEF n
  <2>6. /\ SameStacks(procs, procs') /\ SameKin(procs, procs') /\ procs[n].kstack # NoStack
        /\ NoNewReader(ac, procs')
    BY ZenonT(40), <1>1, <1>2, <1>4, <1>5, <2>3, <2>4 DEF SameStacks, SameKin, NoNewReader, Switched
  <2> QED
    BY Zenon, <2>3, <2>4, <2>5, <2>6, ScheduleNext DEF ac, Switched
<1> QED
  BY Zenon, <1>3, <1>6, <1>7 DEF schedule

\* Console interrupts: a signal may stop or kill whom it hits, the process on the CPU
\* included, and every interrupt asks for the wake-ups.
LEMMA ConsoleCpu ==
  ASSUME CpuInv, ConsoleInput \/ ConsoleSignal
  PROVE  CpuNext
<1>0. procs \in Table /\ Sound(procs, current_pid) /\ OnStack /\ Family
      /\ current_pid \in Pids \cup {NoPid} /\ INIT_PID \in Pids
  BY Zenon DEF CpuInv, Inv, TypeOK, Table
<1>1. /\ KEYBOARD_WAKE_PENDING' /\ boot = "run"
      /\ UNCHANGED <<generations, INIT_PID, current_pid, rsp0, boot>>
  BY Zenon DEF ConsoleInput, ConsoleSignal, Live
<1>2. \E qs : procs' = qs /\ Gentle(procs, qs)
  <2>1. CASE ConsoleInput
    BY Zenon, <1>0, <2>1, GentleSame DEF ConsoleInput, Sound
  <2>2. CASE ConsoleSignal
    <3>1. PICK s : procs' = send_signal_to_fg(procs, s)
      BY Zenon, <2>2 DEF ConsoleSignal
    <3> QED
      BY Zenon, <1>0, <3>1, SendSignalGentle DEF Sound
  <2> QED
    BY Zenon, <2>1, <2>2
<1>3. Gentle(procs, procs')
  BY Zenon, <1>2
<1>4. Sound(procs', current_pid) /\ SameKin(procs, procs')
  BY Zenon, <1>0, <1>3, GentleSound, GentleKin
<1>5. OnStack'
  BY Zenon, <1>0, <1>1, <1>3 DEF OnStack, Gentle, Eased
<1>6. Kin(procs')
  BY Zenon, <1>0, <1>1, <1>4, KinSame DEF Family
<1>7. Family'
  BY Zenon, <1>0, <1>1, <1>6 DEF Family, Kin
<1>8. NoLostConsoleWake'
  BY Zenon, <1>1 DEF NoLostConsoleWake
<1> QED
  BY Zenon, <1>1, <1>4, <1>5, <1>7, <1>8 DEF CpuNext

-----------------------------------------------------------------------------
(* Boot *)

\* No process is its own child.
Unlooped(ps, gens) == \A p \in Pids : ps[p].parent = p => ps[p].parent_gen # gens[p]

\* spawn_user into the first free slot c, before anything runs.  The first program
\* spawned with parent 1 may take slot 1 itself: its recorded parent then has
\* generation 0, which no slot that has been spawned into has.
LEMMA SpawnCpu ==
  ASSUME CpuInv, current_pid = NoPid, NEW parent \in Pids \cup {NoPid}, FreeSlots(procs) # {},
         Spawn(parent)
  PROVE  LET c == Least(FreeSlots(procs)) IN
         /\ Sound(procs', NoPid) /\ NoNewReader(procs, procs') /\ Unlooped(procs', generations')
         /\ c \in UserPids /\ procs[c].state = "Empty"
         /\ procs'[c].parent = parent /\ procs'[c].state # "Empty"
         /\ \A p \in Pids \ {c} : procs'[p] = procs[p] /\ generations'[p] = generations[p]
<1> DEFINE c == Least(FreeSlots(procs))
           parent_gen == IF parent # NoPid /\ IsSome(procs, parent)
                         THEN procs[parent].gen ELSE 0
           g == generations[c] + 1
<1>0. /\ procs \in Table /\ Sound(procs, NoPid) /\ generations \in [Pids -> Nat]
      /\ \A p \in Pids : p # NoPid
      /\ \A p \in Pids : procs[p].parent = p => procs[p].parent_gen # generations[p]
  BY SMTT(30), SchedulerAssumption DEF CpuInv, Inv, TypeOK, Table, Family, Pids, NoPid
<1>1. PICK k \in alloc_kernel_stack : spawn_user(parent, k)
  BY Zenon DEF Spawn
<1>2. k \in Stacks /\ k # NoStack
  BY FreshStack, SchedulerAssumption DEF Stacks, NoStack
<1>3. c \in UserPids /\ c \in Pids /\ procs[c].state = "Empty"
  BY Zenon, FirstFreeSlot DEF FreeSlots, IsSome
<1>4. parent_gen \in Nat /\ (parent = c => parent_gen = 0)
  <2>1. CASE parent = NoPid
    BY Zenon, <2>1
  <2>2. CASE parent \in Pids
    <3>1. procs[parent].gen \in Nat
      BY Zenon, <1>0, <2>2 DEF Table, Process
    <3> QED
      BY Zenon, <1>3, <3>1 DEF IsSome
  <2> QED
    BY Zenon, <2>1, <2>2
<1>5. g \in Nat /\ g # 0 /\ c \in Nat
  BY SMTT(30), <1>0, <1>3, SchedulerAssumption DEF Pids
<1>6. /\ procs' = [procs EXCEPT ![c] = NewProcess(parent, parent_gen, g, c, k)]
      /\ generations' = [generations EXCEPT ![c] = g]
  BY Zenon, <1>1 DEF spawn_user
<1> HIDE DEF c, parent_gen, g
<1> DEFINE b == NewProcess(parent, parent_gen, g, c, k)
<1>7. b \in Process
  BY Zenon, <1>2, <1>4, <1>5, NewProcessType
<1>8. /\ b.state = "Ready" /\ b.wake = NoWake /\ b.kstack = k /\ b.parent = parent
      /\ b.parent_gen = parent_gen
  BY Zenon DEF NewProcess
<1>9. procs' = [procs EXCEPT ![c] = b]
  BY Zenon, <1>6
<1> HIDE DEF b
<1> DEFINE qs == [procs EXCEPT ![c] = b]
<1>a. b.kstack # NoStack /\ c # NoPid /\ procs \in Table /\ Sound(procs, NoPid)
  BY Zenon, <1>0, <1>2, <1>3, <1>8
<1>10. /\ Sound(qs, NoPid) /\ NoNewReader(procs, qs)
       /\ \A p \in Pids : qs[p] = IF p = c THEN b ELSE procs[p]
  BY SMTT(30), <1>3, <1>7, <1>8, <1>a, NewSound
<1>11. \A p \in Pids : procs'[p] = IF p = c THEN b ELSE procs[p]
  BY Zenon, <1>9, <1>10
<1>12. \A p \in Pids : generations'[p] = IF p = c THEN g ELSE generations[p]
  BY Zenon, <1>0, <1>6
<1>13. Unlooped(procs', generations')
  BY Zenon, <1>0, <1>4, <1>5, <1>8, <1>11, <1>12 DEF Unlooped
<1>14. Sound(procs', NoPid) /\ NoNewReader(procs, procs')
  BY Zenon, <1>9, <1>10
<1>15. procs'[c].parent = parent /\ procs'[c].state # "Empty"
  BY Zenon, <1>3, <1>8, <1>11
<1> QED
  BY Zenon, <1>3, <1>11, <1>12, <1>13, <1>14, <1>15 DEF c

\* kernel_main, step by step.
LEMMA BootCpu ==
  ASSUME CpuInv, Boot
  PROVE  CpuNext
<1> DEFINE c == Least(FreeSlots(procs))
<1>0. /\ procs \in Table /\ current_pid = NoPid /\ Sound(procs, NoPid)
      /\ UNCHANGED <<current_pid, rsp0, KEYBOARD_WAKE_PENDING, line_ready>>
      /\ 1 \in Pids \cup {NoPid} /\ INIT_PID \in Pids /\ Unlooped(procs, generations)
  <2>1. boot # "run" /\ UNCHANGED <<current_pid, rsp0, KEYBOARD_WAKE_PENDING, line_ready>>
    BY Zenon DEF Boot, BootTestSpawn, BootClear, BootRegression, BootForceSwitch, BootInit, BootShell
  <2> QED
    BY <2>1, SchedulerAssumption DEF CpuInv, Inv, TypeOK, Table, Family, Pids, Unlooped
<1>1. ASSUME Sound(procs', NoPid), Unlooped(procs', generations'), NoNewReader(procs, procs'),
             boot' \in {"shell", "run"} => INIT_PID' \in UserPids /\ Kin(procs)'
      PROVE  CpuNext
  <2>1. OnStack'
    BY Zenon, <1>0 DEF OnStack
  <2>2. Family'
    BY Zenon, <1>0, <1>1 DEF Family, Unlooped
  <2>3. NoLostConsoleWake'
    BY Zenon, <1>0, <1>1 DEF CpuInv, NoLostConsoleWake, NoNewReader, Reading
  <2> QED
    BY Zenon, <1>0, <1>1, <2>1, <2>2, <2>3 DEF CpuNext
<1>2. ASSUME NEW parent \in Pids \cup {NoPid}, Spawnable, Spawn(parent)
      PROVE  /\ Sound(procs', NoPid) /\ Unlooped(procs', generations')
             /\ NoNewReader(procs, procs')
             /\ c \in UserPids /\ procs[c].state = "Empty"
             /\ procs'[c].parent = parent /\ procs'[c].state # "Empty"
             /\ \A p \in Pids \ {c} : procs'[p] = procs[p] /\ generations'[p] = generations[p]
  BY Zenon, <1>0, <1>2, SpawnCpu DEF Spawnable
<1> HIDE DEF c
<1>3. CASE BootTestSpawn
  BY Zenon, <1>0, <1>1, <1>2, <1>3 DEF BootTestSpawn
<1>4. CASE BootClear
  <2>1. \A p \in Pids : procs'[p] = IF p = IdlePid THEN procs[p] ELSE EmptySlot
    BY Zenon, <1>4 DEF BootClear
  <2>2. EmptySlot.state = "Empty" /\ EmptySlot.parent = NoPid
    BY Zenon DEF EmptySlot, NewProcess
  <2>3. Sound(procs', NoPid)
    BY Zenon, <1>0, <2>1, <2>2, IdleSlot DEF Sound, Fit, IdleFit
  <2>4. generations' = generations /\ boot' = "regression" /\ \A p \in Pids : p # NoPid
    BY <1>4, SchedulerAssumption DEF BootClear, Pids, NoPid
  <2>5. Unlooped(procs', generations')
    BY Zenon, <1>0, <2>1, <2>2, <2>4 DEF Unlooped
  <2>6. NoNewReader(procs, procs')
    BY Zenon, <2>1, <2>2 DEF NoNewReader, Reading
  <2> QED
    BY Zenon, <1>1, <2>3, <2>4, <2>5, <2>6
<1>5. CASE BootRegression
  BY Zenon, <1>0, <1>1, <1>2, <1>5 DEF BootRegression, RegressionLeft
<1>6. CASE BootForceSwitch
  <2>1. UNCHANGED <<procs, generations>> /\ boot' = "init"
    BY Zenon, <1>6 DEF BootForceSwitch
  <2> QED
    BY Zenon, <1>0, <1>1, <2>1 DEF NoNewReader
<1>7. CASE BootInit
  <2>1. CASE Spawnable
    <3>1. Spawn(NoPid) /\ INIT_PID' = c
      BY Zenon, <1>7, <2>1 DEF BootInit, c
    <3>2. /\ Sound(procs', NoPid) /\ Unlooped(procs', generations') /\ NoNewReader(procs, procs')
          /\ c \in UserPids /\ procs'[c].parent = NoPid /\ procs'[c].state # "Empty"
      BY Zenon, <1>2, <2>1, <3>1
    <3>3. Kin(procs)'
      BY Zenon, <3>1, <3>2 DEF Kin, Unlooped
    <3> QED
      BY Zenon, <1>1, <3>1, <3>2, <3>3
  <2>2. CASE ~Spawnable
    <3>1. UNCHANGED <<procs, generations>> /\ boot' = "halt"
      BY Zenon, <1>7, <2>2 DEF BootInit
    <3> QED
      BY Zenon, <1>0, <1>1, <3>1 DEF NoNewReader
  <2> QED
    BY Zenon, <2>1, <2>2
<1>8. CASE BootShell
  <2>0. INIT_PID \in UserPids /\ Kin(procs) /\ INIT_PID' = INIT_PID
    BY Zenon, <1>8 DEF BootShell, CpuInv, Family
  <2>1. CASE Spawnable
    <3>1. Spawn(1)
      BY Zenon, <1>8, <2>1 DEF BootShell
    <3>2. /\ Sound(procs', NoPid) /\ Unlooped(procs', generations') /\ NoNewReader(procs, procs')
          /\ procs[c].state = "Empty"
          /\ \A p \in Pids \ {c} : procs'[p] = procs[p]
      BY Zenon, <1>0, <1>2, <2>1, <3>1
    <3>3. procs'[INIT_PID] = procs[INIT_PID]
      BY Zenon, <1>0, <2>0, <3>2 DEF Kin
    <3>4. Kin(procs)'
      BY Zenon, <2>0, <3>2, <3>3 DEF Kin, Unlooped
    <3> QED
      BY Zenon, <1>1, <2>0, <3>2, <3>4
  <2>2. CASE ~Spawnable
    <3>1. UNCHANGED <<procs, generations>>
      BY Zenon, <1>8, <2>2 DEF BootShell
    <3>2. Kin(procs)'
      BY Zenon, <2>0, <3>1 DEF Kin
    <3> QED
      BY Zenon, <1>0, <1>1, <2>0, <3>1, <3>2 DEF NoNewReader
  <2> QED
    BY Zenon, <2>1, <2>2
<1> QED
  BY Zenon, <1>3, <1>4, <1>5, <1>6, <1>7, <1>8 DEF Boot

-----------------------------------------------------------------------------
(* Theorems *)

\* process::init makes two processes that can run.
LEMMA InitCpu == Init => CpuInv
<1> SUFFICES ASSUME Init PROVE CpuInv
  BY Zenon
<1>0. IdlePid \in Pids /\ 1 \in Pids /\ \A p \in Pids : p # NoPid
  BY IdleSlot, SchedulerAssumption DEF Pids, NoPid
<1>1. \A p \in Pids : procs[p] \in {NewProcess(NoPid, 0, 1, 0, 1), NewProcess(NoPid, 0, 1, 0, 2), EmptySlot}
  BY Zenon DEF Init
<1>2. procs[IdlePid] = NewProcess(NoPid, 0, 1, 0, 1)
  BY Zenon, <1>0 DEF Init, IdlePid
<1>3. \A k : /\ NewProcess(NoPid, 0, 1, 0, k).state = "Ready"
             /\ NewProcess(NoPid, 0, 1, 0, k).wake = NoWake
             /\ NewProcess(NoPid, 0, 1, 0, k).kstack = k
             /\ NewProcess(NoPid, 0, 1, 0, k).parent = NoPid
  BY Zenon DEF NewProcess
<1>4. EmptySlot.state = "Empty" /\ EmptySlot.parent = NoPid
  BY Zenon DEF EmptySlot, NewProcess
<1>5. \A p \in Pids : /\ procs[p].parent = NoPid /\ procs[p].state \in {"Ready", "Empty"}
                      /\ procs[p].state = "Ready" => procs[p].wake = NoWake /\ procs[p].kstack # NoStack
  BY SMTT(30), <1>1, <1>3, <1>4 DEF NoStack
<1>6. IdleFit(procs)
  BY <1>2, <1>3 DEF IdleFit, NoStack
<1>7. Sound(procs, current_pid)
  BY Zenon, <1>5, <1>6 DEF Sound, Fit
<1>8. current_pid = NoPid /\ boot = "tests" /\ line_ready = FALSE
  BY Zenon DEF Init
<1>9. Family /\ OnStack /\ NoLostConsoleWake
  BY Zenon, <1>0, <1>5, <1>8 DEF Family, OnStack, NoLostConsoleWake
<1> QED
  BY Zenon, <1>7, <1>9, InitInv DEF CpuInv

\* The invariant is inductive.
LEMMA NextCpu == CpuInv /\ [Next]_vars => CpuInv'
<1> SUFFICES ASSUME CpuInv, [Next]_vars PROVE CpuInv'
  BY Zenon
<1>0. Inv'
  BY Zenon, NextInv DEF CpuInv
<1>1. CASE UNCHANGED vars
  <2>1. UNCHANGED <<procs, generations, INIT_PID, current_pid, rsp0, KEYBOARD_WAKE_PENDING,
                    line_ready, boot>>
    BY Zenon, <1>1 DEF vars
  <2> QED
    BY Zenon, <1>0, <2>1 DEF CpuInv, Sound, IdleFit, OnStack, Family, Kin, NoLostConsoleWake
<1>2. CASE Next
  <2>1. CpuNext
    BY Zenon, <1>2, BootCpu, SyscallCpu, ScheduleCpu, KillProcessCpu, ConsoleCpu DEF Next, Interrupt
  <2> QED
    BY Zenon, <1>0, <2>1 DEF CpuInv, CpuNext
<1> QED
  BY Zenon, <1>1, <1>2

\* The invariant holds in every reachable state of the kernel.
THEOREM CpuInvariance == Spec => []CpuInv
<1> QED
  BY InitCpu, NextCpu, PTL DEF Spec

\* However processes are forked, blocked, signalled, killed and reaped, the process
\* that schedule, schedule_force or kill_process puts on the CPU is the only Running
\* one; if it is not Running a signal has hit it there, and it has no wake-up reason.
THEOREM OneOnCpu == Spec => []CpuOwner
<1>1. CpuInv => CpuOwner
  BY Zenon DEF CpuInv, CpuOwner, Sound, OnStack, OnCpu
<1> QED
  BY <1>1, CpuInvariance, PTL

\* After every context switch TSS.RSP0 is the stack of the process on the CPU, and the
\* heap has not got that stack back: reap_zombie and drain_deferred_free never free the
\* stack the kernel is going to enter on.
THEOREM Rsp0Valid == Spec => []Rsp0IsCurrentStack
<1>1. CpuInv => Rsp0IsCurrentStack
  <2> SUFFICES ASSUME CpuInv, current_pid # NoPid
               PROVE  rsp0 = procs[current_pid].kstack /\ rsp0 \in allocated
    BY Zenon DEF Rsp0IsCurrentStack
  <2>1. current_pid \in Pids
    BY Zenon DEF CpuInv, Inv, TypeOK
  <2>2. procs[current_pid].kstack \in allocated \cup {NoStack}
    BY Zenon, <2>1 DEF CpuInv, Inv, StackOwnership
  <2> QED
    BY Zenon, <2>2 DEF CpuInv, OnStack
<1> QED
  BY <1>1, CpuInvariance, PTL

\* defer_free takes the stack of a process only once it is a Zombie that no wake site
\* can find: no process without a stack is ever made Ready again.
THEOREM StrippedIsDead == Spec => []StrippedStaysDead
<1>1. CpuInv => StrippedStaysDead
  BY Zenon DEF CpuInv, StrippedStaysDead, Sound, Fit, IsSome
<1> QED
  BY <1>1, CpuInvariance, PTL

\* A process that blocks in read_line is woken for every line committed later: either
\* no line was there when it looked, or the interrupt's request is still pending.
THEOREM ConsoleWakeKept == Spec => []NoLostConsoleWake
<1>1. CpuInv => NoLostConsoleWake
  BY Zenon DEF CpuInv
<1> QED
  BY <1>1, CpuInvariance, PTL

-----------------------------------------------------------------------------
(* Families, while nobody is signalled *)

\* A table in which nothing is pending, nobody is orphaned and no Zombie is still
\* recorded as somebody's parent.
Peaceful(ps) ==
  /\ \A p \in Pids : ps[p].pending = {} /\ ~ps[p].orphaned
  /\ \A p, z \in Pids : ps[p].state # "Empty" /\ ps[z].state = "Zombie" => ps[p].parent # z

\* The same, with idle and init alive.
QuietTable(ps) ==
  /\ Peaceful(ps)
  /\ ps[IdlePid].state \notin {"Empty", "Zombie"}
  /\ ps[INIT_PID].state # "Zombie"

\* The strengthening of NoOrphans: the process on the CPU is alive as well, and nobody
\* has died before start_scheduler.
QuietInv ==
  /\ QuietTable(procs)
  /\ current_pid # NoPid => procs[current_pid].state # "Zombie"
  /\ boot # "run" => \A p \in Pids : procs[p].state # "Zombie"

\* Slot contents a may become b by anything that neither ends, makes, removes, signals
\* nor hands over a process.
Milder(a, b) ==
  /\ b.pending = a.pending /\ b.orphaned = a.orphaned /\ b.parent = a.parent
  /\ b.state = "Empty" <=> a.state = "Empty"
  /\ b.state = "Zombie" => a.state = "Zombie"

Mild(ps, qs) == \A p \in Pids : Milder(ps[p], qs[p])

\* A mild step keeps a table quiet, and ends nobody.
LEMMA MildQuiet ==
  ASSUME NEW ps, NEW qs, Mild(ps, qs), QuietTable(ps), INIT_PID \in Pids
  PROVE  QuietTable(qs) /\ \A p \in Pids : ps[p].state # "Zombie" => qs[p].state # "Zombie"
<1>1. Peaceful(qs)
  <2>1. ASSUME NEW p \in Pids
        PROVE  /\ qs[p].pending = ps[p].pending /\ qs[p].orphaned = ps[p].orphaned
               /\ qs[p].parent = ps[p].parent
               /\ qs[p].state # "Empty" => ps[p].state # "Empty"
               /\ qs[p].state = "Zombie" => ps[p].state = "Zombie"
    BY Zenon DEF Mild, Milder
  <2>2. \A p \in Pids : qs[p].pending = {} /\ ~qs[p].orphaned
    BY Zenon, <2>1 DEF QuietTable, Peaceful
  <2>3. ASSUME NEW p \in Pids, NEW z \in Pids, qs[p].state # "Empty", qs[z].state = "Zombie"
        PROVE  qs[p].parent # z
    <3>1. ps[p].state # "Empty" /\ ps[z].state = "Zombie"
      BY Zenon, <2>1, <2>3
    <3>2. ps[p].parent # z
      BY Zenon, <3>1 DEF QuietTable, Peaceful
    <3> QED
      BY Zenon, <2>1, <3>2
  <2> QED
    BY Zenon, <2>2, <2>3 DEF Peaceful
<1>2. \A p \in Pids : ps[p].state # "Zombie" => qs[p].state # "Zombie"
  BY Zenon DEF Mild, Milder
<1>3. qs[IdlePid].state # "Empty"
  BY Zenon, IdleSlot DEF Mild, Milder, QuietTable
<1> QED
  BY Zenon, <1>1, <1>2, <1>3, IdleSlot DEF QuietTable

\* Mild steps follow each other.
LEMMA MildTrans ==
  ASSUME NEW ps, NEW qs, NEW rs, Mild(ps, qs), Mild(qs, rs)
  PROVE  Mild(ps, rs)
<1> SUFFICES ASSUME NEW p \in Pids PROVE Milder(ps[p], rs[p])
  BY Zenon DEF Mild
<1>1. Milder(ps[p], qs[p]) /\ Milder(qs[p], rs[p])
  BY Zenon DEF Mild
<1> QED
  BY Zenon, <1>1 DEF Milder

\* A slot that stays as it is.
LEMMA MilderSame ==
  ASSUME NEW a
  PROVE  Milder(a, a)
BY Zenon DEF Milder

\* A wake site.
LEMMA MilderWoken ==
  ASSUME NEW a \in Process, a.state # "Empty"
  PROVE  Milder(a, Woken(a))
<1>1. /\ Woken(a).state = "Ready" /\ Woken(a).pending = a.pending
      /\ Woken(a).orphaned = a.orphaned /\ Woken(a).parent = a.parent
  BY Zenon DEF Woken, Process
<1> QED
  BY Zenon, <1>1 DEF Milder

\* A change of state that neither ends nor removes the process.
LEMMA MilderState ==
  ASSUME NEW a \in Process, a.state # "Empty", NEW st, st \notin {"Empty", "Zombie"}
  PROVE  Milder(a, [a EXCEPT !.state = st])
<1> DEFINE b == [a EXCEPT !.state = st]
<1>1. b.state = st /\ b.pending = a.pending /\ b.orphaned = a.orphaned /\ b.parent = a.parent
  BY Zenon DEF Process
<1> HIDE DEF b
<1>2. Milder(a, b)
  BY Zenon, <1>1 DEF Milder
<1> QED
  BY Zenon, <1>2 DEF b

\* A step of one slot.
LEMMA MildOne ==
  ASSUME NEW ps \in Table, NEW p \in Pids, NEW b, Milder(ps[p], b)
  PROVE  Mild(ps, [ps EXCEPT ![p] = b])
<1> DEFINE qs == [ps EXCEPT ![p] = b]
<1>1. \A q \in Pids : qs[q] = IF q = p THEN b ELSE ps[q]
  BY Zenon DEF Table
<1> HIDE DEF qs
<1>2. Mild(ps, qs)
  BY Zenon, <1>1, MilderSame DEF Mild
<1> QED
  BY Zenon, <1>2 DEF qs

\* process::keyboard_wake and the sleepers' loop of on_tick end nobody.
LEMMA WakesMild ==
  ASSUME NEW ps \in Table
  PROVE  Mild(ps, keyboard_wake(ps)) /\ Mild(ps, WakeSleepers(ps))
<1> DEFINE ks == keyboard_wake(ps)
           ws == WakeSleepers(ps)
           dozing(p) == [ps[p] EXCEPT !.wake = Sleep(ps[p].wake.arg - 1)]
<1>1. \A p \in Pids : ps[p] \in Process
  BY Zenon DEF Table
<1>2. \A p \in Pids : ps[p].state = "Blocked" => Milder(ps[p], Woken(ps[p]))
  BY Zenon, <1>1, MilderWoken
<1>3. \A p \in Pids : Milder(ps[p], dozing(p))
  BY Zenon, <1>1 DEF Milder, Process
<1>4. \A p \in Pids : ks[p] = ps[p] \/ (ps[p].state = "Blocked" /\ ks[p] = Woken(ps[p]))
  BY Zenon DEF keyboard_wake
<1>5. \A p \in Pids : \/ ws[p] \in {ps[p], dozing(p)}
                      \/ ps[p].state = "Blocked" /\ ws[p] = Woken(ps[p])
  BY Zenon DEF WakeSleepers
<1> HIDE DEF ks, ws, dozing
<1>6. Mild(ps, ks) /\ Mild(ps, ws)
  BY Zenon, <1>2, <1>3, <1>4, <1>5, MilderSame DEF Mild
<1> QED
  BY Zenon, <1>6 DEF ks, ws

\* process::wake_wait_for_child ends nobody.
LEMMA WakeWaitForChildMild ==
  ASSUME NEW ps \in Table, NEW z
  PROVE  Mild(ps, wake_wait_for_child(ps, z))
<1> DEFINE qs == wake_wait_for_child(ps, z)
<1>1. \A p \in Pids : ps[p].state = "Blocked" => Milder(ps[p], Woken(ps[p]))
  BY Zenon, MilderWoken DEF Table
<1>2. \A p \in Pids : qs[p] = ps[p] \/ (ps[p].state = "Blocked" /\ qs[p] = Woken(ps[p]))
  BY Zenon DEF wake_wait_for_child
<1> HIDE DEF qs
<1>3. Mild(ps, qs)
  BY Zenon, <1>1, <1>2, MilderSame DEF Mild
<1> QED
  BY Zenon, <1>3 DEF qs

\* Preempting and dispatching a process end nobody.
LEMMA DispatchMild ==
  ASSUME NEW ps \in Table, NEW p \in Pids
  PROVE  /\ Mild(ps, Preempt(ps, p))
         /\ ps[p].state # "Empty" => Mild(ps, Dispatch(ps, p))
         /\ Dispatch(ps, p)[p].state = "Running"
<1>1. ps[p] \in Process
  BY Zenon DEF Table
<1>2. Mild(ps, ps)
  BY Zenon, MilderSame DEF Mild
<1>3. ASSUME ps[p].state # "Empty", NEW st, st \notin {"Empty", "Zombie"}
      PROVE  Mild(ps, [ps EXCEPT ![p].state = st])
  <2> DEFINE b == [ps[p] EXCEPT !.state = st]
  <2>1. Milder(ps[p], b)
    BY Zenon, <1>1, <1>3, MilderState
  <2> HIDE DEF b
  <2>2. Mild(ps, [ps EXCEPT ![p] = b])
    BY Zenon, <2>1, MildOne
  <2> QED
    BY Zenon, <2>2 DEF b
<1>4. Mild(ps, Preempt(ps, p))
  BY Zenon, <1>2, <1>3 DEF Preempt
<1>5. ps[p].state # "Empty" => Mild(ps, Dispatch(ps, p))
  BY Zenon, <1>3 DEF Dispatch
<1>6. Dispatch(ps, p)[p].state = "Running"
  BY Zenon, <1>1 DEF Dispatch, Table, Process
<1> QED
  BY Zenon, <1>4, <1>5, <1>6

\* The scan finds somebody who is there.
LEMMA FoundIsThere ==
  ASSUME NEW ps, NEW a \in Pids, ps[IdlePid].state # "Empty"
  PROVE  find_next_ready(ps, a) \in Pids /\ ps[find_next_ready(ps, a)].state # "Empty"
<1> DEFINE n == find_next_ready(ps, a)
<1>1. n \in Pids /\ (n # IdlePid => n \in ReadyUsers(ps))
  BY Zenon, FindNextReady
<1> HIDE DEF n
<1>2. ps[n].state # "Empty"
  BY Zenon, <1>1 DEF ReadyUsers
<1> QED
  BY Zenon, <1>1, <1>2 DEF n

\* switch_next and switch_next_force, which have no signal to deliver.
LEMMA SwitchMild ==
  ASSUME NEW ps \in Table, NEW rspOk \in BOOLEAN, current_pid \in Pids, INIT_PID \in Pids,
         QuietTable(ps)
  PROVE  /\ switch_next(ps, rspOk) \in Table /\ Mild(ps, switch_next(ps, rspOk))
         /\ next_pid(ps) \in Pids /\ switch_next(ps, rspOk)[next_pid(ps)].state = "Running"
<1> DEFINE a == Preempt(ps, current_pid)
           n == next_pid(ps)
           b == Dispatch(a, n)
<1>1. a \in Table /\ Mild(ps, a)
  BY Zenon, PreemptTable, DispatchMild
<1>2. n = find_next_ready(a, current_pid)
  BY Zenon DEF next_pid
<1>3. switch_next(ps, rspOk) = deliver_signal(b, n, rspOk)
  BY Zenon DEF switch_next
<1> HIDE DEF a, n
<1>4. QuietTable(a)
  BY Zenon, <1>1, MildQuiet
<1>5. n \in Pids /\ a[n].state # "Empty"
  BY Zenon, <1>2, <1>4, FoundIsThere DEF QuietTable
<1>6. b \in Table /\ Mild(a, b) /\ b[n].state = "Running"
  BY Zenon, <1>1, <1>5, DispatchTable, DispatchMild
<1> HIDE DEF b
<1>7. QuietTable(b)
  BY Zenon, <1>4, <1>6, MildQuiet
<1>8. deliver_signal(b, n, rspOk) = b
  BY Zenon, <1>5, <1>7 DEF deliver_signal, QuietTable, Peaceful
<1>9. Mild(ps, b)
  BY Zenon, <1>1, <1>6, MildTrans
<1> QED
  BY Zenon, <1>3, <1>5, <1>6, <1>8, <1>9 DEF n

\* context_switch::defer_free takes a stack, not a process.
LEMMA DeferMild ==
  ASSUME NEW ps \in Table, NEW old \in Pids, NEW k, defer_free(ps, old, k)
  PROVE  Mild(ps, procs')
<1>1. CASE procs' = ps
  BY Zenon, <1>1, MilderSame DEF Mild
<1>2. CASE procs' = [ps EXCEPT ![old].kstack = NoStack]
  <2> DEFINE b == [ps[old] EXCEPT !.kstack = NoStack]
  <2>1. ps[old] \in Process
    BY Zenon DEF Table
  <2>2. Milder(ps[old], b)
    BY Zenon, <2>1 DEF Milder, Process
  <2> HIDE DEF b
  <2>3. Mild(ps, [ps EXCEPT ![old] = b])
    BY Zenon, <2>2, MildOne
  <2> QED
    BY Zenon, <1>2, <2>3 DEF b
<1> QED
  BY Zenon, <1>1, <1>2 DEF defer_free

\* The end of a system call that left the quiet table ps: whoever is on the CPU then is
\* alive, by the switch or because the caller is.
LEMMA ReturnQuiet ==
  ASSUME CpuInv, boot = "run", current_pid \in Pids,
         NEW ps \in Table, NEW force \in BOOLEAN, syscall_return(ps, force), QuietTable(ps),
         force \/ ps[current_pid].state # "Zombie", UNCHANGED <<INIT_PID, boot>>
  PROVE  QuietInv'
<1>0. INIT_PID \in Pids
  BY Zenon DEF CpuInv, Inv, TypeOK
<1>1. CASE force \/ force_switch
  <2> DEFINE n == next_pid(ps)
  <2> DEFINE k == IF ps[current_pid].state = "Zombie" THEN ps[current_pid].kstack ELSE NoStack
  <2>1. PICK rspOk \in BOOLEAN : defer_free(switch_next(ps, rspOk), current_pid, k)
    BY Zenon, <1>1 DEF syscall_return, schedule_force
  <2> DEFINE qs == switch_next(ps, rspOk)
  <2>2. qs \in Table /\ Mild(ps, qs) /\ n \in Pids /\ qs[n].state = "Running"
    BY Zenon, <1>0, SwitchMild
  <2>3. current_pid' = n
    BY Zenon, <1>1 DEF syscall_return, schedule_force
  <2> HIDE DEF n
  <2>4. Mild(qs, procs')
    BY Zenon, <2>1, <2>2, DeferMild
  <2> HIDE DEF qs
  <2>5. QuietTable(qs)
    BY Zenon, <1>0, <2>2, MildQuiet
  <2>6. QuietTable(procs') /\ procs'[n].state # "Zombie"
    BY Zenon, <1>0, <2>2, <2>4, <2>5, MildQuiet
  <2> QED
    BY Zenon, <2>3, <2>6 DEF QuietInv, QuietTable
<1>2. CASE ~(force \/ force_switch)
  <2>1. procs' = ps /\ current_pid' = current_pid
    BY Zenon, <1>2 DEF syscall_return
  <2> QED
    BY Zenon, <1>2, <2>1 DEF QuietInv, QuietTable
<1> QED
  BY Zenon, <1>1, <1>2

\* reparent_orphans_to_init, then the caller is a Zombie: all its children are init's.
LEMMA DyingQuiet ==
  ASSUME CpuInv, QuietInv, boot = "run", current_pid \in UserPids, current_pid # INIT_PID
  PROVE  QuietTable([reparent_orphans_to_init(procs, current_pid)
                       EXCEPT ![current_pid].state = "Zombie"])
<1> DEFINE ps == reparent_orphans_to_init(procs, current_pid)
           dead == [ps EXCEPT ![current_pid].state = "Zombie"]
           mine(p) == IsSome(procs, p) /\ procs[p].parent = current_pid
           r(p) == [procs[p] EXCEPT !.parent = INIT_PID,
                                    !.parent_gen = generations[INIT_PID],
                                    !.orphaned = FALSE]
<1>0. current_pid \in Pids /\ current_pid # IdlePid /\ IdlePid \in Pids
  BY Zenon, IdleSlot
<1>1. /\ procs \in Table /\ INIT_PID \in Pids /\ procs[current_pid].state # "Empty"
      /\ generations \in [Pids -> Nat]
  BY Zenon, <1>0, Caller DEF CpuInv, Inv, TypeOK
<1>2. ps \in Table
  BY Zenon, <1>1, ReparentTable
<1>3. \A p \in Pids : ps[p] = IF mine(p) THEN r(p) ELSE procs[p]
  BY Zenon DEF reparent_orphans_to_init
<1>4. \A p \in Pids : procs[p] \in Process /\ ps[p] \in Process
  BY Zenon, <1>1, <1>2 DEF Table
<1>5. \A p \in Pids : /\ r(p).state = procs[p].state /\ r(p).pending = procs[p].pending
                      /\ r(p).parent = INIT_PID /\ ~r(p).orphaned
  BY Zenon, <1>4 DEF Process
<1> HIDE DEF ps, r
<1>6. \A p \in Pids : /\ dead[p].state = IF p = current_pid THEN "Zombie" ELSE ps[p].state
                      /\ dead[p].pending = ps[p].pending /\ dead[p].parent = ps[p].parent
                      /\ dead[p].orphaned = ps[p].orphaned
  BY <1>2, <1>4 DEF Table, Process
<1> HIDE DEF dead
<1>7. \A p \in Pids : procs[p].pending = {} /\ ~procs[p].orphaned
  BY Zenon DEF QuietInv, QuietTable, Peaceful
<1>8. \A p \in Pids : /\ ps[p].state = procs[p].state
                      /\ dead[p].pending = {} /\ ~dead[p].orphaned
  <2> SUFFICES ASSUME NEW p \in Pids
               PROVE  ps[p].state = procs[p].state /\ dead[p].pending = {} /\ ~dead[p].orphaned
    BY Zenon
  <2>1. ps[p] = r(p) \/ ps[p] = procs[p]
    BY Zenon, <1>3
  <2>2. ps[p].state = procs[p].state /\ ps[p].pending = {} /\ ~ps[p].orphaned
    BY Zenon, <1>5, <1>7, <2>1
  <2> QED
    BY Zenon, <1>6, <2>2
<1>9. ASSUME NEW p \in Pids, procs[p].state # "Empty"
      PROVE  dead[p].parent # current_pid /\ dead[p].parent \in {procs[p].parent, INIT_PID}
  <2>1. dead[p].parent = ps[p].parent
    BY Zenon, <1>6
  <2>2. CASE procs[p].parent = current_pid
    <3>1. ps[p] = r(p)
      BY Zenon, <1>3, <1>9, <2>2 DEF IsSome
    <3> QED
      BY Zenon, <1>5, <2>1, <3>1
  <2>3. CASE procs[p].parent # current_pid
    <3>1. ps[p] = procs[p]
      BY Zenon, <1>3, <2>3
    <3> QED
      BY Zenon, <2>1, <2>3, <3>1
  <2> QED
    BY Zenon, <2>2, <2>3
<1>10. \A p \in Pids : dead[p].state # "Empty" => procs[p].state # "Empty"
  BY Zenon, <1>1, <1>6, <1>8
<1>11. \A z \in Pids : dead[z].state = "Zombie" =>
                         z = current_pid \/ (procs[z].state = "Zombie" /\ z # INIT_PID)
  BY Zenon, <1>6, <1>8 DEF QuietInv, QuietTable
<1>12. ASSUME NEW p \in Pids, NEW z \in Pids, dead[p].state # "Empty", dead[z].state = "Zombie"
       PROVE  dead[p].parent # z
  <2>1. CASE z = current_pid
    BY Zenon, <1>9, <1>10, <1>12, <2>1
  <2>2. CASE procs[z].state = "Zombie" /\ z # INIT_PID
    <3>1. procs[p].state # "Empty" /\ procs[p].parent # z
      BY Zenon, <1>10, <1>12, <2>2 DEF QuietInv, QuietTable, Peaceful
    <3> QED
      BY Zenon, <1>9, <2>2, <3>1
  <2> QED
    BY Zenon, <1>11, <1>12, <2>1, <2>2
<1>13. dead[IdlePid].state \notin {"Empty", "Zombie"} /\ dead[INIT_PID].state # "Zombie"
  BY Zenon, <1>0, <1>1, <1>6, <1>8 DEF QuietInv, QuietTable
<1>14. QuietTable(dead)
  BY Zenon, <1>8, <1>12, <1>13 DEF QuietTable, Peaceful
<1> QED
  BY Zenon, <1>14 DEF dead, ps

\* reap_zombie of a Zombie: nobody has it as a parent, so nobody is orphaned.
LEMMA ReapQuiet ==
  ASSUME NEW ps \in Table, NEW z \in Pids, ps[z].state = "Zombie", QuietTable(ps), INIT_PID \in Pids
  PROVE  LET qs == reap_zombie(ps, z)
         IN QuietTable(qs) /\ \A p \in Pids : ps[p].state # "Zombie" => qs[p].state # "Zombie"
<1> DEFINE qs == reap_zombie(ps, z)
<1>0. IdlePid \in Pids /\ z # IdlePid
  BY Zenon, IdleSlot DEF QuietTable
<1>1. \A p \in Pids : ps[p].state # "Empty" => ps[p].parent # z
  BY Zenon DEF QuietTable, Peaceful
<1>2. \A p \in Pids : qs[p] = IF p = z THEN EmptySlot ELSE ps[p]
  BY Zenon, <1>1 DEF reap_zombie, IsSome
<1>3. EmptySlot.state = "Empty" /\ EmptySlot.pending = {} /\ ~EmptySlot.orphaned
  BY Zenon DEF EmptySlot, NewProcess
<1> HIDE DEF qs
<1>4. \A p \in Pids : qs[p].pending = {} /\ ~qs[p].orphaned
  BY Zenon, <1>2, <1>3 DEF QuietTable, Peaceful
<1>5. ASSUME NEW p \in Pids, NEW y \in Pids, qs[p].state # "Empty", qs[y].state = "Zombie"
      PROVE  qs[p].parent # y
  <2>1. qs[p] = ps[p] /\ qs[y] = ps[y]
    BY Zenon, <1>2, <1>3, <1>5
  <2> QED
    BY Zenon, <1>5, <2>1 DEF QuietTable, Peaceful
<1>6. \A p \in Pids : ps[p].state # "Zombie" => qs[p].state # "Zombie"
  BY Zenon, <1>2, <1>3
<1>7. qs[IdlePid] = ps[IdlePid]
  BY Zenon, <1>0, <1>2
<1>8. QuietTable(qs)
  BY Zenon, <1>4, <1>5, <1>6, <1>7 DEF QuietTable, Peaceful
<1> QED
  BY Zenon, <1>6, <1>8 DEF qs

\* A new process whose recorded parent is not a Zombie.
LEMMA NewQuiet ==
  ASSUME NEW ps \in Table, NEW c \in Pids, NEW parent, NEW parent_gen, NEW g, NEW pgid, NEW k,
         QuietTable(ps), INIT_PID \in Pids,
         \A z \in Pids : ps[z].state = "Zombie" => parent # z
  PROVE  LET qs == [ps EXCEPT ![c] = NewProcess(parent, parent_gen, g, pgid, k)]
         IN /\ QuietTable(qs) /\ qs[c].state # "Zombie"
            /\ \A p \in Pids : ps[p].state # "Zombie" => qs[p].state # "Zombie"
<1> DEFINE b == NewProcess(parent, parent_gen, g, pgid, k)
           qs == [ps EXCEPT ![c] = b]
<1>1. b.state = "Ready" /\ b.pending = {} /\ ~b.orphaned /\ b.parent = parent
  BY Zenon DEF NewProcess
<1> HIDE DEF b
<1>2. \A p \in Pids : qs[p] = IF p = c THEN b ELSE ps[p]
  BY Zenon DEF Table
<1> HIDE DEF qs
<1>3. \A p \in Pids : qs[p].pending = {} /\ ~qs[p].orphaned
  BY Zenon, <1>1, <1>2 DEF QuietTable, Peaceful
<1>4. ASSUME NEW p \in Pids, NEW z \in Pids, qs[p].state # "Empty", qs[z].state = "Zombie"
      PROVE  qs[p].parent # z
  <2>1. ps[z].state = "Zombie"
    BY Zenon, <1>1, <1>2, <1>4
  <2>2. CASE p = c
    BY Zenon, <1>1, <1>2, <2>1, <2>2
  <2>3. CASE p # c
    BY Zenon, <1>2, <1>4, <2>1, <2>3 DEF QuietTable, Peaceful
  <2> QED
    BY Zenon, <2>2, <2>3
<1>5. qs[c].state # "Zombie" /\ \A p \in Pids : ps[p].state # "Zombie" => qs[p].state # "Zombie"
  BY Zenon, <1>1, <1>2
<1>6. qs[IdlePid].state # "Empty"
  BY Zenon, <1>1, <1>2, IdleSlot DEF QuietTable
<1>7. QuietTable(qs)
  BY Zenon, <1>3, <1>4, <1>5, <1>6, IdleSlot DEF QuietTable, Peaceful
<1> QED
  BY Zenon, <1>5, <1>7 DEF qs, b

\* A call that changes the table mildly.
LEMMA MildReturn ==
  ASSUME CpuInv, QuietInv, boot = "run", current_pid \in UserPids, NEW ps \in Table,
         NEW force \in BOOLEAN, Mild(procs, ps), syscall_return(ps, force),
         UNCHANGED <<INIT_PID, boot>>
  PROVE  QuietInv'
<1>1. current_pid \in Pids /\ INIT_PID \in Pids /\ procs[current_pid].state # "Zombie"
  <2>1. current_pid # NoPid
    BY SchedulerAssumption DEF UserPids, NoPid
  <2> QED
    BY Zenon, <2>1, IdleSlot DEF QuietInv, CpuInv, Inv, TypeOK
<1>2. QuietTable(ps) /\ ps[current_pid].state # "Zombie"
  BY Zenon, <1>1, MildQuiet DEF QuietInv
<1> QED
  BY Zenon, <1>1, <1>2, ReturnQuiet

\* The caller goes to sleep.
LEMMA BlockQuiet ==
  ASSUME CpuInv, QuietInv, boot = "run", current_pid \in UserPids, NEW w \in WakeReason,
         syscall_return(BlockOn(procs, current_pid, w), TRUE), UNCHANGED <<INIT_PID, boot>>
  PROVE  QuietInv'
<1> DEFINE me == procs[current_pid]
           b == [me EXCEPT !.state = "Blocked", !.wake = w]
           ps == BlockOn(procs, current_pid, w)
<1>0. current_pid \in Pids
  BY Zenon, IdleSlot
<1>1. procs \in Table /\ me.state # "Empty" /\ me \in Process
  BY Zenon, <1>0, Caller
<1>2. ps \in Table
  BY Zenon, <1>0, <1>1, BlockOnTable
<1>3. b.state = "Blocked" /\ b.pending = me.pending /\ b.orphaned = me.orphaned /\ b.parent = me.parent
  BY Zenon, <1>1 DEF Process
<1>4. ps = [procs EXCEPT ![current_pid] = b]
  BY Zenon DEF BlockOn
<1> HIDE DEF b, ps
<1>5. Milder(me, b)
  BY Zenon, <1>1, <1>3 DEF Milder
<1>6. Mild(procs, ps)
  BY Zenon, <1>0, <1>1, <1>4, <1>5, MildOne
<1>7. syscall_return(ps, TRUE)
  BY Zenon DEF ps
<1> QED
  BY Zenon, <1>2, <1>6, <1>7, MildReturn

\* sys_waitpid, by a program or by init.
LEMMA WaitpidQuiet ==
  ASSUME CpuInv, QuietInv, boot = "run", current_pid \in UserPids, NEW c \in Pids,
         NEW WNOHANG \in BOOLEAN, NEW WUNTRACED \in BOOLEAN, waitpid(c, WNOHANG, WUNTRACED),
         UNCHANGED <<INIT_PID, boot>>
  PROVE  QuietInv'
<1> DEFINE zombies == IF c = 0 THEN ZombieChildren(current_pid)
                      ELSE ZombieChildren(current_pid) \cap {c}
<1>0. current_pid \in Pids /\ current_pid # NoPid
  BY IdleSlot, SchedulerAssumption DEF UserPids, NoPid
<1>1. procs \in Table /\ INIT_PID \in Pids /\ procs[current_pid].state # "Zombie"
  BY Zenon, <1>0, Caller DEF QuietInv
<1>2. CASE zombies # {} /\ Reap(Least(zombies))
  <2> DEFINE z == Least(zombies)
             ps == reap_zombie(procs, z)
  <2>1. zombies \subseteq Nat /\ zombies \subseteq ZombieChildren(current_pid)
    BY SchedulerAssumption DEF ZombieChildren, Children, Pids
  <2>2. z \in ZombieChildren(current_pid)
    BY Zenon, <1>2, <2>1, LeastProperty
  <2>3. syscall_return(ps, FALSE)
    BY Zenon, <1>2 DEF Reap
  <2> HIDE DEF z
  <2>4. z \in Pids /\ procs[z].state = "Zombie"
    BY Zenon, <2>2 DEF ZombieChildren, Children
  <2>5. QuietTable(ps) /\ ps[current_pid].state # "Zombie"
    BY Zenon, <1>0, <1>1, <2>4, ReapQuiet DEF QuietInv
  <2>6. ps \in Table
    BY Zenon, <1>1, <2>4, ReapZombieTable
  <2> HIDE DEF ps
  <2> QED
    BY Zenon, <1>0, <2>3, <2>5, <2>6, ReturnQuiet
<1>3. CASE syscall_return(procs, FALSE)
  BY Zenon, <1>1, <1>3, MilderSame, MildReturn DEF Mild
<1>4. CASE BlockFor(c)
  <2>1. WaitForChild(c) \in WakeReason
    BY SchedulerAssumption DEF WaitForChild, WakeReason, Pids
  <2> QED
    BY Zenon, <1>4, <2>1, BlockQuiet DEF BlockFor
<1> QED
  BY Zenon, <1>2, <1>3, <1>4 DEF waitpid

\* sys_fork: the child's parent is the caller, who is alive.
LEMMA ForkQuiet ==
  ASSUME CpuInv, QuietInv, boot = "run", current_pid \in UserPids, sys_fork
  PROVE  QuietInv'
<1>0. current_pid \in Pids /\ current_pid # NoPid /\ UNCHANGED <<INIT_PID, boot>>
  BY IdleSlot, SchedulerAssumption DEF UserPids, NoPid, sys_fork
<1>1. /\ procs \in Table /\ INIT_PID \in Pids /\ procs[current_pid] \in Process
      /\ procs[current_pid].state # "Zombie"
  BY Zenon, <1>0, Caller DEF QuietInv
<1>2. CASE syscall_return(procs, FALSE)
  BY Zenon, <1>0, <1>1, <1>2, MilderSame, MildReturn DEF Mild
<1>3. ASSUME NEW k \in alloc_kernel_stack, FreeSlots(procs) # {},
             syscall_return([procs EXCEPT ![Least(FreeSlots(procs))] = ForkChild(k)], FALSE)
      PROVE  QuietInv'
  <2> DEFINE c == Least(FreeSlots(procs))
             ps == [procs EXCEPT ![c] = ForkChild(k)]
  <2>1. c \in Pids
    BY Zenon, <1>3, FirstFreeSlot, IdleSlot DEF FreeSlots
  <2>2. k \in Stacks
    BY Zenon, FreshStack
  <2>3. procs[current_pid].gen \in Nat /\ procs[current_pid].pgid \in Nat
    BY Zenon, <1>1 DEF Process
  <2>4. ForkChild(k) \in Process
    BY Zenon, <1>0, <2>2, <2>3, NewProcessType DEF ForkChild
  <2>5. syscall_return(ps, FALSE)
    BY Zenon, <1>3
  <2> HIDE DEF c
  <2>6. QuietTable(ps) /\ ps[current_pid].state # "Zombie"
    BY Zenon, <1>0, <1>1, <2>1, NewQuiet DEF ForkChild, QuietInv
  <2>7. ps \in Table
    BY Zenon, <1>1, <2>1, <2>4 DEF Table
  <2> HIDE DEF ps
  <2> QED
    BY Zenon, <1>0, <2>5, <2>6, <2>7, ReturnQuiet
<1> QED
  BY Zenon, <1>2, <1>3 DEF sys_fork

\* A change to fields that have nothing to do with families.
LEMMA FieldMild ==
  ASSUME NEW ps \in Table, NEW p \in Pids, NEW b \in Process, b.state = ps[p].state,
         b.pending = ps[p].pending, b.orphaned = ps[p].orphaned, b.parent = ps[p].parent
  PROVE  [ps EXCEPT ![p] = b] \in Table /\ Mild(ps, [ps EXCEPT ![p] = b])
<1>1. Milder(ps[p], b)
  BY Zenon DEF Milder
<1>2. Mild(ps, [ps EXCEPT ![p] = b])
  BY Zenon, <1>1, MildOne
<1> QED
  BY Zenon, <1>2 DEF Table

\* The system calls other than kill, and the steps that send no signal.
PeacefulCall == \/ sys_exit \/ sys_yield \/ sys_sleep \/ sys_waitpid \/ init_main
                \/ sys_read \/ sys_fork \/ sys_sigaction \/ sys_setpgid
PeacefulStep == Boot \/ PeacefulCall \/ schedule \/ kill_process \/ ConsoleInput

\* Every system call but kill: a process that exits first hands its children to init,
\* one that forks is alive, and one that is reaped has no children left.
LEMMA SyscallQuiet ==
  ASSUME CpuInv, QuietInv, PeacefulCall
  PROVE  QuietInv'
<1>0. boot = "run" /\ current_pid \in UserPids /\ current_pid \in Pids
  BY Zenon, UserCaller, IdleSlot DEF PeacefulCall, Syscall
<1>1. procs \in Table /\ INIT_PID \in Pids /\ procs[current_pid] \in Process
  BY Zenon, <1>0, Caller
<1>2. CASE sys_exit
  <2> DEFINE dead == [reparent_orphans_to_init(procs, current_pid)
                        EXCEPT ![current_pid].state = "Zombie"]
             qs == wake_wait_for_child(dead, current_pid)
  <2>1. current_pid # INIT_PID /\ UNCHANGED <<INIT_PID, boot>> /\ syscall_return(qs, TRUE)
    BY Zenon, <1>2 DEF sys_exit, Program
  <2>2. dead \in Table
    BY Zenon, <1>0, DyingTable DEF CpuInv, Inv
  <2>3. QuietTable(dead)
    BY Zenon, <1>0, <2>1, DyingQuiet
  <2> HIDE DEF dead
  <2>4. qs \in Table /\ Mild(dead, qs)
    BY Zenon, <2>2, WakeWaitForChildTable, WakeWaitForChildMild
  <2> HIDE DEF qs
  <2>5. QuietTable(qs)
    BY Zenon, <1>1, <2>3, <2>4, MildQuiet
  <2> QED
    BY Zenon, <1>0, <2>1, <2>4, <2>5, ReturnQuiet
<1>3. CASE sys_yield
  BY Zenon, <1>0, <1>1, <1>3, MilderSame, MildReturn DEF Mild, sys_yield
<1>4. CASE sys_sleep
  <2>1. PICK n \in 0..MaxSleep : syscall_return(BlockOn(procs, current_pid, Sleep(n)), TRUE)
    BY Zenon, <1>4 DEF sys_sleep
  <2>2. Sleep(n) \in WakeReason
    BY SchedulerAssumption DEF Sleep, WakeReason
  <2> QED
    BY Zenon, <1>0, <1>4, <2>1, <2>2, BlockQuiet DEF sys_sleep
<1>5. CASE sys_waitpid
  BY Zenon, <1>0, <1>5, WaitpidQuiet DEF sys_waitpid
<1>6. CASE init_main
  <2>1. 0 \in Pids
    BY SchedulerAssumption DEF Pids
  <2> QED
    BY Zenon, <1>0, <1>6, <2>1, WaitpidQuiet DEF init_main
<1>7. CASE sys_read
  <2>1. Keyboard \in WakeReason
    BY Zenon DEF Keyboard, WakeReason
  <2>2. CASE line_ready
    BY Zenon, <1>0, <1>1, <1>7, <2>2, MilderSame, MildReturn DEF Mild, sys_read
  <2>3. CASE ~line_ready
    BY Zenon, <1>0, <1>7, <2>1, <2>3, BlockQuiet DEF sys_read
  <2> QED
    BY Zenon, <2>2, <2>3
<1>8. CASE sys_fork
  BY Zenon, <1>0, <1>8, ForkQuiet
<1>9. CASE sys_sigaction
  <2>1. PICK s \in Sigs, h \in Handler :
          syscall_return([procs EXCEPT ![current_pid].handlers[s] = h], FALSE)
    BY Zenon, <1>9 DEF sys_sigaction
  <2> DEFINE me == procs[current_pid]
             hs == [me.handlers EXCEPT ![s] = h]
             pr == [me EXCEPT !.handlers = hs]
             ps == [procs EXCEPT ![current_pid].handlers[s] = h]
  <2>2. /\ pr \in Process /\ pr.state = me.state /\ pr.pending = me.pending
        /\ pr.orphaned = me.orphaned /\ pr.parent = me.parent
    <3>1. hs \in [Sigs -> Handler]
      BY Zenon, <1>1 DEF Process
    <3> HIDE DEF hs
    <3> QED
      BY Zenon, <1>1, <3>1 DEF Process
  <2>3. ps = [procs EXCEPT ![current_pid] = pr]
    BY Zenon
  <2> HIDE DEF hs, pr, ps
  <2>4. ps \in Table /\ Mild(procs, ps)
    BY Zenon, <1>0, <1>1, <2>2, <2>3, FieldMild
  <2>5. syscall_return(ps, FALSE)
    BY Zenon, <2>1 DEF ps
  <2> QED
    BY Zenon, <1>0, <1>9, <2>4, <2>5, MildReturn DEF sys_sigaction
<1>10. CASE sys_setpgid
  <2>1. PICK t \in UserPids, g \in UserPids :
          \/ syscall_return(procs, FALSE)
          \/ syscall_return([procs EXCEPT ![t].pgid = g], FALSE)
    BY Zenon, <1>10 DEF sys_setpgid
  <2> DEFINE pr == [procs[t] EXCEPT !.pgid = g]
             ps == [procs EXCEPT ![t].pgid = g]
  <2>2. t \in Pids /\ g \in Nat
    BY SchedulerAssumption DEF UserPids, Pids
  <2>3. /\ pr \in Process /\ pr.state = procs[t].state /\ pr.pending = procs[t].pending
        /\ pr.orphaned = procs[t].orphaned /\ pr.parent = procs[t].parent
    <3>1. procs[t] \in Process
      BY Zenon, <1>1, <2>2 DEF Table
    <3> QED
      BY Zenon, <2>2, <3>1 DEF Process
  <2>4. ps = [procs EXCEPT ![t] = pr]
    BY Zenon
  <2> HIDE DEF pr, ps
  <2>5. ps \in Table /\ Mild(procs, ps)
    BY Zenon, <1>1, <2>2, <2>3, <2>4, FieldMild
  <2>6. syscall_return(procs, FALSE) \/ syscall_return(ps, FALSE)
    BY Zenon, <2>1 DEF ps
  <2>7. Mild(procs, procs)
    BY Zenon, MilderSame DEF Mild
  <2> QED
    BY Zenon, <1>0, <1>1, <1>10, <2>5, <2>6, <2>7, MildReturn DEF sys_setpgid
<1> QED
  BY Zenon, <1>2, <1>3, <1>4, <1>5, <1>6, <1>7, <1>8, <1>9, <1>10 DEF PeacefulCall

\* A fault: the process that dies hands its children to init first.
LEMMA KillProcessQuiet ==
  ASSUME CpuInv, QuietInv, kill_process
  PROVE  QuietInv'
<1> DEFINE dead == [reparent_orphans_to_init(procs, current_pid)
                      EXCEPT ![current_pid].state = "Zombie"]
           n == find_next_ready(dead, current_pid)
           qs == Dispatch(dead, n)
           k == procs[current_pid].kstack
<1>0. boot = "run" /\ current_pid \in UserPids /\ current_pid \in Pids
  BY Zenon, UserCaller, IdleSlot
<1>1. INIT_PID \in Pids
  BY Zenon, <1>0, Caller
<1>2. /\ defer_free(qs, current_pid, k) /\ current_pid' = n
      /\ current_pid # INIT_PID /\ UNCHANGED <<INIT_PID, boot>>
  BY Zenon DEF kill_process, Program
<1>3. dead \in Table /\ QuietTable(dead)
  BY Zenon, <1>0, <1>2, DyingTable, DyingQuiet DEF CpuInv, Inv
<1> HIDE DEF dead
<1>4. n \in Pids /\ dead[n].state # "Empty"
  BY Zenon, <1>0, <1>3, FoundIsThere DEF QuietTable
<1> HIDE DEF n
<1>5. qs \in Table /\ Mild(dead, qs) /\ qs[n].state = "Running"
  BY Zenon, <1>3, <1>4, DispatchTable, DispatchMild
<1> HIDE DEF qs, k
<1>6. QuietTable(qs) /\ Mild(qs, procs')
  BY Zenon, <1>0, <1>1, <1>2, <1>3, <1>5, MildQuiet, DeferMild
<1>7. QuietTable(procs') /\ procs'[n].state # "Zombie"
  BY Zenon, <1>1, <1>4, <1>5, <1>6, MildQuiet
<1> QED
  BY Zenon, <1>0, <1>2, <1>7 DEF QuietInv, QuietTable

\* A timer interrupt wakes, preempts and dispatches; there is no signal to deliver.
LEMMA ScheduleQuiet ==
  ASSUME CpuInv, QuietInv, schedule
  PROVE  QuietInv'
<1> DEFINE ac == AfterConsole
           ws == WakeSleepers(ac)
<1>0. /\ procs \in Table /\ INIT_PID \in Pids /\ IdlePid \in Pids
      /\ current_pid \in Pids \cup {NoPid} /\ QuietTable(procs)
  BY Zenon, IdleSlot DEF CpuInv, Inv, TypeOK, Table, QuietInv
<1>1. boot = "run" /\ boot' = boot /\ INIT_PID' = INIT_PID
  BY Zenon DEF schedule, schedule_first, schedule_tick, schedule_switch, DrainAndWake, Live
<1>2. ac \in Table
  BY Zenon, AfterConsoleGentle
<1>3. Mild(procs, ac)
  BY Zenon, <1>0, WakesMild, MilderSame DEF AfterConsole, Mild
<1>4. ASSUME NEW n \in Pids, current_pid' = n, QuietTable(procs'), procs'[n].state # "Zombie"
      PROVE  QuietInv'
  BY Zenon, <1>1, <1>4 DEF QuietInv, QuietTable
<1>5. CASE schedule_first
  <2> DEFINE n == find_next_ready(ac, IdlePid)
  <2>1. procs' = Dispatch(ac, n) /\ current_pid' = n
    BY Zenon, <1>5 DEF schedule_first
  <2> HIDE DEF ac
  <2>2. QuietTable(ac)
    BY Zenon, <1>0, <1>3, MildQuiet
  <2>3. n \in Pids /\ ac[n].state # "Empty"
    BY Zenon, <1>0, <2>2, FoundIsThere DEF QuietTable
  <2> HIDE DEF n
  <2>4. Mild(ac, procs') /\ procs'[n].state = "Running"
    BY Zenon, <1>2, <2>1, <2>3, DispatchMild
  <2>5. QuietTable(procs') /\ procs'[n].state # "Zombie"
    BY Zenon, <1>0, <2>2, <2>4, MildQuiet
  <2> QED
    BY Zenon, <1>4, <2>1, <2>3, <2>5
<1> HIDE DEF ac
<1>6. ws \in Table /\ Mild(ac, ws)
  BY Zenon, <1>2, WakeSleepersTable, WakesMild
<1> HIDE DEF ws
<1>7. Mild(procs, ws)
  BY Zenon, <1>3, <1>6, MildTrans
<1>8. QuietTable(ws) /\ \A p \in Pids : procs[p].state # "Zombie" => ws[p].state # "Zombie"
  BY Zenon, <1>0, <1>7, MildQuiet
<1>9. CASE schedule_tick
  <2>1. procs' = ws /\ current_pid' = current_pid /\ current_pid # NoPid
    BY Zenon, <1>9 DEF schedule_tick, ws, ac
  <2>2. current_pid \in Pids /\ procs[current_pid].state # "Zombie"
    BY Zenon, <1>0, <2>1 DEF QuietInv
  <2> QED
    BY Zenon, <1>4, <1>8, <2>1, <2>2
<1>10. CASE schedule_switch
  <2> DEFINE n == next_pid(ws)
  <2>1. current_pid \in Pids
    BY Zenon, <1>0, <1>10 DEF schedule_switch
  <2>2. PICK rspOk \in BOOLEAN : procs' = switch_next(ws, rspOk)
    BY Zenon, <1>10 DEF schedule_switch, ws, ac
  <2>3. current_pid' = n
    BY Zenon, <1>10 DEF schedule_switch, ws, ac
  <2>4. Mild(ws, procs') /\ n \in Pids /\ procs'[n].state = "Running"
    BY Zenon, <1>0, <1>6, <1>8, <2>1, <2>2, SwitchMild
  <2> HIDE DEF n
  <2>5. QuietTable(procs') /\ procs'[n].state # "Zombie"
    BY Zenon, <1>0, <1>8, <2>4, MildQuiet
  <2> QED
    BY Zenon, <1>4, <2>3, <2>4, <2>5
<1> QED
  BY Zenon, <1>5, <1>9, <1>10 DEF schedule

\* kernel_main up to start_scheduler: nobody has died yet.
LEMMA BootQuiet ==
  ASSUME CpuInv, QuietInv, Boot
  PROVE  QuietInv'
<1> DEFINE c == Least(FreeSlots(procs))
<1>0. /\ procs \in Table /\ current_pid = NoPid /\ current_pid' = NoPid
      /\ INIT_PID \in Pids /\ QuietTable(procs)
      /\ \A p \in Pids : procs[p].state # "Zombie"
  <2>1. boot # "run" /\ current_pid' = current_pid
    BY Zenon DEF Boot, BootTestSpawn, BootClear, BootRegression, BootForceSwitch, BootInit, BootShell
  <2> QED
    BY Zenon, <2>1 DEF CpuInv, Inv, TypeOK, Table, Family, QuietInv
<1>1. ASSUME QuietTable(procs)', \A p \in Pids : procs'[p].state # "Zombie"
      PROVE  QuietInv'
  BY Zenon, <1>0, <1>1 DEF QuietInv
<1>2. ASSUME NEW parent, Spawnable, Spawn(parent), INIT_PID' \in {INIT_PID, c}
      PROVE  QuietInv'
  <2>1. PICK k \in alloc_kernel_stack : spawn_user(parent, k)
    BY Zenon, <1>2 DEF Spawn
  <2>2. c \in Pids
    BY Zenon, <1>2, FirstFreeSlot, IdleSlot DEF FreeSlots, Spawnable
  <2> DEFINE pg0 == IF parent # NoPid /\ IsSome(procs, parent) THEN procs[parent].gen ELSE 0
             g0 == generations[c] + 1
  <2>3. procs' = [procs EXCEPT ![c] = NewProcess(parent, pg0, g0, c, k)]
    BY Zenon, <2>1 DEF spawn_user
  <2> HIDE DEF c, pg0, g0
  <2>4. PICK pg, g : procs' = [procs EXCEPT ![c] = NewProcess(parent, pg, g, c, k)]
    BY Zenon, <2>3
  <2>5. /\ QuietTable(procs') /\ procs'[c].state # "Zombie"
        /\ \A p \in Pids : procs[p].state # "Zombie" => procs'[p].state # "Zombie"
    <3> DEFINE qs == [procs EXCEPT ![c] = NewProcess(parent, pg, g, c, k)]
    <3>1. /\ QuietTable(qs) /\ qs[c].state # "Zombie"
          /\ \A p \in Pids : procs[p].state # "Zombie" => qs[p].state # "Zombie"
      BY Zenon, <1>0, <2>2, NewQuiet
    <3>2. procs' = qs
      BY Zenon, <2>4
    <3> HIDE DEF qs
    <3> QED
      BY Zenon, <3>1, <3>2
  <2>6. procs'[INIT_PID'].state # "Zombie"
    BY Zenon, <1>2, <2>5 DEF QuietTable
  <2> QED
    BY Zenon, <1>0, <1>1, <2>5, <2>6 DEF QuietTable
<1>3. CASE BootTestSpawn
  BY Zenon, <1>2, <1>3 DEF BootTestSpawn
<1>4. CASE BootClear
  <2>1. \A p \in Pids : procs'[p] = IF p = IdlePid THEN procs[p] ELSE EmptySlot
    BY Zenon, <1>4 DEF BootClear
  <2>2. EmptySlot.state = "Empty" /\ EmptySlot.pending = {} /\ ~EmptySlot.orphaned
    BY Zenon DEF EmptySlot, NewProcess
  <2>3. INIT_PID' = INIT_PID /\ procs'[IdlePid] = procs[IdlePid]
    BY Zenon, <1>4, <2>1, IdleSlot DEF BootClear
  <2>4. \A p \in Pids : procs'[p].state # "Zombie" /\ procs'[p].pending = {} /\ ~procs'[p].orphaned
    BY Zenon, <1>0, <2>1, <2>2 DEF QuietTable, Peaceful
  <2>5. QuietTable(procs)'
    BY Zenon, <1>0, <2>3, <2>4 DEF QuietTable, Peaceful
  <2> QED
    BY Zenon, <1>1, <2>4, <2>5
<1>5. CASE BootRegression
  BY Zenon, <1>2, <1>5 DEF BootRegression, RegressionLeft
<1>6. CASE UNCHANGED <<procs, INIT_PID>>
  BY Zenon, <1>0, <1>1, <1>6 DEF QuietTable
<1>7. CASE BootInit
  BY Zenon, <1>2, <1>6, <1>7 DEF BootInit
<1>8. CASE BootShell
  BY Zenon, <1>2, <1>6, <1>8 DEF BootShell
<1>9. CASE BootForceSwitch
  BY Zenon, <1>6, <1>9 DEF BootForceSwitch
<1> QED
  BY Zenon, <1>3, <1>4, <1>5, <1>7, <1>8, <1>9 DEF Boot

\* process::init makes two living processes.
LEMMA InitQuiet == Init => QuietInv
<1> SUFFICES ASSUME Init PROVE QuietInv
  BY Zenon
<1>1. \A p \in Pids : procs[p] \in {NewProcess(NoPid, 0, 1, 0, 1), NewProcess(NoPid, 0, 1, 0, 2), EmptySlot}
  BY Zenon DEF Init
<1>2. procs[IdlePid] = NewProcess(NoPid, 0, 1, 0, 1)
  BY Zenon, IdleSlot DEF Init, IdlePid
<1>3. \A k : LET n == NewProcess(NoPid, 0, 1, 0, k)
             IN n.state = "Ready" /\ n.pending = {} /\ ~n.orphaned
  BY Zenon DEF NewProcess
<1>4. EmptySlot.state = "Empty" /\ EmptySlot.pending = {} /\ ~EmptySlot.orphaned
  BY Zenon DEF EmptySlot, NewProcess
<1>5. \A p \in Pids : procs[p].state # "Zombie" /\ procs[p].pending = {} /\ ~procs[p].orphaned
  BY Zenon, <1>1, <1>3, <1>4
<1>6. procs[IdlePid].state = "Ready"
  BY Zenon, <1>2, <1>3
<1>7. current_pid = NoPid /\ INIT_PID = IdlePid
  BY Zenon DEF Init, IdlePid
<1>8. QuietTable(procs)
  BY Zenon, <1>5, <1>6, <1>7 DEF QuietTable, Peaceful
<1> QED
  BY Zenon, <1>5, <1>7, <1>8 DEF QuietInv

\* The only steps that can disturb it are the two that send signals.
LEMMA NextQuiet == CpuInv /\ QuietInv /\ (PeacefulStep \/ UNCHANGED vars) => QuietInv'
<1> SUFFICES ASSUME CpuInv, QuietInv, PeacefulStep \/ UNCHANGED vars PROVE QuietInv'
  BY Zenon
<1>1. CASE UNCHANGED <<procs, INIT_PID, current_pid, boot>>
  BY Zenon, <1>1 DEF QuietInv, QuietTable
<1>2. CASE UNCHANGED vars
  BY Zenon, <1>1, <1>2 DEF vars
<1>3. CASE ConsoleInput
  BY Zenon, <1>1, <1>3 DEF ConsoleInput
<1>4. CASE Boot \/ PeacefulCall \/ schedule \/ kill_process
  BY Zenon, <1>4, BootQuiet, SyscallQuiet, ScheduleQuiet, KillProcessQuiet
<1> QED
  BY Zenon, <1>2, <1>3, <1>4 DEF PeacefulStep

\* A kernel in which no signal is sent, by sys_kill or from the console, loses nobody: a
\* process that reap_zombie takes out of the table is never the recorded parent of
\* another one, since sys_exit and kill_process hand the children over before the
\* process is a Zombie, and no process forks once it is one.
THEOREM NobodyOrphaned ==
  ASSUME "kill" \notin Workload, "ctrl" \notin Workload
  PROVE  Spec => []NoOrphans
<1>1. ~sys_kill /\ ~ConsoleSignal
  BY Zenon DEF sys_kill, Program, ConsoleSignal
<1>2. CpuInv /\ QuietInv /\ [Next]_vars => QuietInv'
  BY Zenon, <1>1, NextQuiet DEF Next, Syscall, Interrupt, PeacefulStep, PeacefulCall
<1>3. QuietInv => NoOrphans
  BY Zenon DEF QuietInv, QuietTable, Peaceful, NoOrphans
<1> QED
  BY <1>2, <1>3, InitQuiet, CpuInvariance, PTL DEF Spec

\* The same of the instance that TLC checks, for every size of it: until the first
\* signal is sent nobody is left behind.
THEOREM NobodyOrphanedUnsignalled == MCSpec => []NoOrphansUnsignalled
<1> DEFINE I == CpuInv /\ (~signalled => QuietInv)
<1>1. MCInit => I
  BY Zenon, InitCpu, InitQuiet DEF MCInit
<1>2. ASSUME I, [MCNext]_mcvars
      PROVE  I'
  <2>1. [Next]_vars
    <3>1. CASE UNCHANGED mcvars
      BY Zenon, <3>1 DEF mcvars
    <3>2. CASE MCNext
      BY Zenon, <3>2 DEF MCNext, Next, Syscall, Interrupt
    <3> QED
      BY Zenon, <1>2, <3>1, <3>2
  <2>2. CpuInv'
    BY Zenon, <1>2, <2>1, NextCpu
  <2>3. ASSUME ~signalled' PROVE QuietInv'
    <3>1. ~signalled /\ (PeacefulStep \/ UNCHANGED vars)
      <4>1. CASE UNCHANGED mcvars
        BY Zenon, <2>3, <4>1 DEF mcvars
      <4>2. CASE MCNext
        <5>1. \/ signalled' = TRUE
              \/ /\ signalled' = signalled
                 /\ \/ Boot \/ schedule \/ init_main \/ sys_exit \/ sys_yield \/ sys_waitpid \/ sys_read
                    \/ sys_fork \/ sys_sigaction \/ sys_setpgid \/ kill_process \/ ConsoleInput
          BY Zenon, <4>2 DEF MCNext, Does, Sends
        <5>2. signalled' # TRUE
          BY <2>3
        <5>3. signalled' = signalled => ~signalled
          BY <2>3
        <5> QED
          BY Zenon, <5>1, <5>2, <5>3 DEF PeacefulStep, PeacefulCall
      <4> QED
        BY Zenon, <1>2, <4>1, <4>2
    <3> QED
      BY Zenon, <1>2, <3>1, NextQuiet
  <2> QED
    BY Zenon, <2>2, <2>3
<1>3. I => NoOrphansUnsignalled
  BY Zenon DEF NoOrphansUnsignalled, NoOrphans, QuietInv, QuietTable, Peaceful
<1> HIDE DEF I
<1> QED
  BY <1>1, <1>2, <1>3, PTL DEF MCSpec
=============================================================================
