---------------------------- MODULE MCProcesses ----------------------------
(***************************************************************************)
(* Small instances of Scheduler for TLC.  What the programs and the        *)
(* console do is a scenario, chosen at the start: one run covers several   *)
(* workloads, and its state space is their sum and not their product.      *)
(***************************************************************************)
EXTENDS Scheduler

VARIABLES
  scenario,    \* the operations performed in this behaviour
  signalled    \* history: a signal has been sent or will be delivered

mcvars == <<vars, scenario, signalled>>

\* Families come and go; signals hit them; signals meet handlers; the console is
\* read, and interrupts.
Families == {"exit", "waitpid", "fork", "yield", "fault"}
Signals == {"exit", "waitpid", "fork", "kill", "ctrl", "fault"}
Handlers == {"exit", "waitpid", "kill", "sigaction"}
Console == {"exit", "read", "enter", "ctrl", "setpgid"}
Scenarios == {Families, Signals, Handlers, Console}

\* Bounds.  Only families meet processes left by the boot-time tests;
\* only the console scenario stops programs and moves them between groups.
MayFork == scenario = Families \/ Cardinality(FreeSlots(procs)) > 1
BootsClean == scenario = Families \/ boot # "tests" \/ boot' # "tests"
Busy == current_pid # 1
OwnGroup == \A p \in Pids \ {current_pid} : procs'[p].pgid = procs[p].pgid
SignalsUsed == IF scenario = Console THEN Sigs ELSE {SIGINT}
OnlyUsedSignals ==
  \A p \in Pids : procs'[p].pending \subseteq SignalsUsed /\ procs'[p].stop \in SignalsUsed \cup {0}

MCInit ==
  /\ Init
  /\ scenario \in Scenarios
  /\ signalled = FALSE

Does(op) == op \in scenario /\ UNCHANGED <<scenario, signalled>>
Sends(op) == op \in scenario /\ signalled' = TRUE /\ UNCHANGED scenario

MCNext ==
  \/ Boot /\ BootsClean /\ UNCHANGED <<scenario, signalled>>
  \/ schedule /\ UNCHANGED <<scenario, signalled>>
  \/ init_main /\ UNCHANGED <<scenario, signalled>>
  \/ Does("exit") /\ sys_exit
  \/ Does("yield") /\ sys_yield
  \/ Does("waitpid") /\ sys_waitpid
  \/ Does("read") /\ sys_read
  \/ Does("fork") /\ MayFork /\ sys_fork
  \/ Does("sigaction") /\ Busy /\ sys_sigaction
  \/ Does("setpgid") /\ Busy /\ sys_setpgid /\ OwnGroup
  \/ Does("fault") /\ kill_process
  \/ Does("enter") /\ ConsoleInput
  \/ Sends("kill") /\ sys_kill /\ OnlyUsedSignals
  \/ Sends("ctrl") /\ ConsoleSignal /\ OnlyUsedSignals

MCSpec == MCInit /\ [][MCNext]_mcvars

\* Until a signal is sent nobody is left behind: the recorded parent of a process
\* is still there, because an exiting or faulting process first hands its children
\* to init (reparent_orphans_to_init before Zombie in sys_exit and kill_process).
NoOrphansUnsignalled == ~signalled => NoOrphans
=============================================================================
