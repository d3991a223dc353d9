----------------------------- MODULE PipeQueue -----------------------------
(***************************************************************************)
(* What the pipes promise: each is a bounded first-in first-out queue of   *)
(* bytes, empty when the pipe is created.                                  *)
(***************************************************************************)
EXTENDS Naturals, Sequences

CONSTANTS PipeIdx, Values, Capacity

VARIABLES
  queues,  \* per pipe, the bytes written and not read yet
  got      \* what the last read that found data returned

Init == queues = [i \in PipeIdx |-> <<>>] /\ got = <<>>

Put(i) ==
  \E k \in 1..(Capacity - Len(queues[i])) : \E s \in [1..k -> Values] :
    queues' = [queues EXCEPT ![i] = @ \o s] /\ UNCHANGED got

Take(i) ==
  \E k \in 1..Len(queues[i]) :
    /\ got' = SubSeq(queues[i], 1, k)
    /\ queues' = [queues EXCEPT ![i] = SubSeq(@, k + 1, Len(@))]

\* Pipes whose last descriptor goes away lose what nobody has read.
Discard(S) ==
  /\ queues' = [i \in PipeIdx |-> IF i \in S THEN <<>> ELSE queues[i]]
  /\ UNCHANGED got

Next == (\E i \in PipeIdx : Put(i) \/ Take(i)) \/ (\E S \in SUBSET PipeIdx : Discard(S))

Spec == Init /\ [][Next]_<<queues, got>>
=============================================================================
