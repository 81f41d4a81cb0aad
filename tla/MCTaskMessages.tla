----------------------------- MODULE MCTaskMessages -----------------------------
(* A parent task and its child, each of whose agents can post to the other.     *)
EXTENDS TaskMessages

CONSTANTS parent, child

ParentAndChild == {parent, child}
BothWays == {<<parent, child>>, <<child, parent>>}

================================================================================
