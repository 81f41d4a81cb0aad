------------------------------ MODULE MCRuntimePanes ------------------------------
EXTENDS RuntimePanes, TLC

Symmetry == Permutations(Pane)
================================================================================
