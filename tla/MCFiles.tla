-------------------------------- MODULE MCFiles --------------------------------
(***************************************************************************)
(* A small instance of Files: two names, two levels, and trees that differ *)
(* in every way the code tells apart.                                      *)
(***************************************************************************)
EXTENDS Files

Paths == {<<"a">>, <<"ab">>, <<"a", "x">>, <<"ab", "x">>}
TheTarget == <<"ab">>
TheLonger == {<<"ab", "a">>}

Tree(a, ax, ab, abx) ==
  [p \in Paths |-> CASE p = <<"a">> -> a [] p = <<"a", "x">> -> ax [] p = <<"ab">> -> ab [] OTHER -> abx]

TheTrees ==
  {<<Tree(Dir, None, Dir, Source(1, 2, Attributes)), Tree(None, None, Dir, File(1, 0))>>,
   <<Tree(None, None, None, None), Tree(Dir, None, Dir, File(1, 1))>>,
   <<Tree(Dir, Link, Source(1, 2, Attributes), None), Tree(Dir, Link, Dir, File(2, 3))>>,
   <<Tree(None, None, Dir, Source(1, 3, {})), Tree(Link, None, Dir, File(2, 1))>>}

TheFolders == {<<>>, <<"a">>}
TheBare == {<<"ab">>}
TheModes == {[mirror |-> TRUE, byTime |-> TRUE], [mirror |-> FALSE, byTime |-> FALSE]}
=============================================================================
