---------------------------- MODULE MCConfigCache ----------------------------
(* A tree of three nested groups with no, one and two options; one cache of  *)
(* the whole tree, the others of the two inner groups.                       *)
EXTENDS ConfigCache

CONSTANT RootCache

MCOptCount == [g \in 0 .. 2 |-> g]
MCStart == [c \in UpdateCaches \union NextCaches |-> IF c = RootCache THEN 0 ELSE 1]
MCGroupCount == [c \in UpdateCaches \union NextCaches |-> IF c = RootCache THEN 3 ELSE 2]
==============================================================================
