------------------------------ MODULE MCFat32 ------------------------------
(* A volume of five data clusters, the directory in cluster 2, a file of one *)
(* cluster, one of two and an empty one.                                     *)
EXTENDS Fat32

MCVolume == [n \in {"e", "f", "g"} |-> CASE n = "e" -> [first |-> 0, size |-> 0]
                                       [] n = "f" -> [first |-> 3, size |-> 2]
                                       [] n = "g" -> [first |-> 4, size |-> 3]]
MCFirstFat == [c \in 2..7 |-> CASE c = 4 -> 5 [] c \in {2, 3, 5} -> 8 [] OTHER -> 0]
MCFirstData == [c \in 2..6 |-> [b \in 0..1 |-> IF c \in {3, 4, 5} THEN 1 ELSE 0]]
MCTexts == {<<2, 2, 2>>}
============================================================================
