--------------------------- MODULE ConsoleStream ---------------------------
(***************************************************************************)
(* What the console promises its readers: the bytes of the lines that were *)
(* committed, in the order they were typed, each delivered once.  A line   *)
(* can be edited until it is committed and not after.                      *)
(***************************************************************************)
EXTENDS Naturals, Sequences

CONSTANT Byte

VARIABLES
  committed,  \* bytes of committed lines that no read has returned yet
  edit,       \* the line being typed
  got         \* what the last successful read returned

streamVars == <<committed, edit, got>>

Init == committed = <<>> /\ edit = <<>> /\ got = <<>>

Type(b) == edit' = Append(edit, b) /\ UNCHANGED <<committed, got>>

Erase ==
  /\ edit # <<>>
  /\ edit' = SubSeq(edit, 1, Len(edit) - 1)
  /\ UNCHANGED <<committed, got>>

Commit ==
  /\ committed' = committed \o edit
  /\ edit' = <<>>
  /\ UNCHANGED got

\* In raw mode a byte is committed as it is typed.
TypeRaw(b) ==
  /\ committed' = (committed \o edit) \o <<b>>
  /\ edit' = <<>>
  /\ UNCHANGED got

Read(k) ==
  /\ got' = SubSeq(committed, 1, k)
  /\ committed' = SubSeq(committed, k + 1, Len(committed))
  /\ UNCHANGED edit

Next ==
  \/ \E b \in Byte : Type(b) \/ TypeRaw(b)
  \/ Erase
  \/ Commit
  \/ \E k \in 1..Len(committed) : Read(k)

Spec == Init /\ [][Next]_streamVars
=============================================================================
