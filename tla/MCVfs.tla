------------------------------- MODULE MCVfs -------------------------------
(* Two files of two bytes beside the root, in a pool of five.              *)
EXTENDS Vfs, TLC

MCBuffers == {<<"x">>, <<"y", "x">>, <<"x", "x", "x">>}
MCSeekOffsets == {-1, 0, 2}

\* The names of files are interchangeable.
Symmetry == Permutations(Names \ {Root})
=============================================================================
