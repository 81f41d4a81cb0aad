----------------------------- MODULE MCTaskFiles -----------------------------
(* A directory a with a file a/c, and a file b; a directory can be moved    *)
(* onto b and back.  Requests are interchangeable.                          *)
EXTENDS TaskFiles, TLC

Paths    == {<<"a">>, <<"b">>, <<"a", "c">>, <<"b", "c">>}
Dirs     == {<<"a">>}
Files    == {<<"b">>, <<"a", "c">>}
Symmetry == Permutations(Request)

=============================================================================
