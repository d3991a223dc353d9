------------------------------ MODULE MCShell ------------------------------
(***************************************************************************)
(* Small sessions: every line of up to 3 characters and a few longer       *)
(* ones; cd with every argument of up to 3 characters, three times over; a *)
(* single command, and another after it; a three-stage pipeline and one    *)
(* with redirections; and pipelines typed while the children of an earlier *)
(* one are still there, so that pipe and fork fail.                        *)
(***************************************************************************)
EXTENDS Shell

Words(C, n) == UNION {[1..k -> C] : k \in 0..n}

W == <<"w">>
Pipeline2 == <<"w", "|", "w">>
Pipeline3 == <<"w", "|", "w", "|", "w">>
Redirected2 == <<"w", ">", "w", "|", "w", "<", "w">>
Bars2 == <<"|", "|">>
Bars3 == <<"|", "|", "|">>

\* More words, commands and operators than fit, and quotes that meet them.
Longer == {<<"w", "_", "w", "_", "w">>, <<"|", "|", "|", "|">>, <<"q", "w", "|", "w", "q", "w">>,
           <<"w", "q", "|", "q", "w">>, <<"w", ">", ">", "w", "_">>, <<"w", "|", "q", "|", "_">>}

MCSessions == {"parse", "cd", "single", "long", "again", "full"}
MCLines ==
  [s \in MCSessions |->
     CASE s = "parse" -> <<Words(Characters, 3) \cup Longer>>
       [] s = "cd" -> <<{W}, {W}, {W}>>
       [] s = "single" -> <<{W}, {W}>>
       [] s = "long" -> <<{Pipeline3, Redirected2}>>
       [] s = "again" -> <<{Pipeline2}, {Bars2}>>
       [] s = "full" -> <<{Bars3}, {Bars2}>>]
MCPaths == [s \in MCSessions |-> IF s = "cd" THEN Words({"/", ".", "a"}, 3) ELSE {}]
=============================================================================
