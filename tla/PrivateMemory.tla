--------------------------- MODULE PrivateMemory ---------------------------
(***************************************************************************)
(* What the memory system promises to user programs: every process has a   *)
(* memory of its own.  A page is either absent or holds a value; only the  *)
(* process itself changes what it sees, a fork gives the child a copy, and *)
(* a program that is loaded starts from a fresh image.  Sharing, frames    *)
(* and page tables do not appear here.                                     *)
(***************************************************************************)
CONSTANTS
  Procs, Pages,
  Values,       \* what a page may hold; programs write values other than 0
  Absent,       \* what an unmapped page holds
  FreshImage,   \* the memory a program starts with
  First         \* the first process

VARIABLE view   \* view[p][g]: what process p reads at page g

NoMemory == [g \in Pages |-> Absent]

Init == view = [p \in Procs |-> IF p = First THEN FreshImage ELSE NoMemory]

Write(p, g, v) == /\ view[p][g] # Absent
                  /\ view' = [view EXCEPT ![p][g] = v]

\* p is the child of a fork of q.
Forked(p, q) == /\ view[q] # NoMemory /\ view[p] = NoMemory
                /\ view' = [view EXCEPT ![p] = view[q]]

\* New memory holds whatever the frame held before.
Grow(p, g) == /\ view[p] # NoMemory /\ view[p][g] = Absent
              /\ \E v \in Values : view' = [view EXCEPT ![p][g] = v]

Shrink(p) == /\ \A q \in Procs \ {p} : view'[q] = view[q]
             /\ \A g \in Pages : view'[p][g] \in {view[p][g], Absent}

Load(p) == view[p] # NoMemory /\ view' = [view EXCEPT ![p] = FreshImage]

End(p) == view' = [view EXCEPT ![p] = NoMemory]

\* Each step changes the memory of one process.
Next == \E p \in Procs :
    /\ view'[p] # view[p]
    /\ \/ \E g \in Pages, v \in Values \ {0} : Write(p, g, v)
       \/ \E q \in Procs : Forked(p, q)
       \/ \E g \in Pages : Grow(p, g)
       \/ Shrink(p)
       \/ Load(p)
       \/ End(p)

Spec == Init /\ [][Next]_view
============================================================================
