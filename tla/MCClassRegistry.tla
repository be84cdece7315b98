-------------------------- MODULE MCClassRegistry --------------------------
(* An instance of ClassRegistry: a base class and a derived one.  *)
EXTENDS ClassRegistry

CONSTANTS parent, child, o1, o2, o3

MCParent == [c \in {parent, child} |-> IF c = child THEN parent ELSE Null]
MCIsA == {<<c, c>> : c \in {parent, child}} \cup {<<child, parent>>}

Symmetry == Permutations(Objects)
=============================================================================
