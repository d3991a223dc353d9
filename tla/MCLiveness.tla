----------------------------- MODULE MCLiveness -----------------------------
(***************************************************************************)
(* Small instance of Scheduler for its liveness properties: programs that  *)
(* fork, exit, wait, sleep and yield, with nobody at the console.          *)
(***************************************************************************)
EXTENDS Scheduler

LiveNext ==
  \/ Boot \/ schedule
  \/ sys_exit \/ sys_yield \/ sys_sleep \/ sys_waitpid \/ sys_fork \/ init_main

LiveSpec == Init /\ [][LiveNext]_vars /\ Fairness
=============================================================================
