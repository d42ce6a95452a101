------------------------------ MODULE MCMcsfs1 -----------------------------
(* Three inodes of two bytes, two names that fit and one that does not.    *)
EXTENDS Mcsfs1

MCBuffers == {<< >>, <<"x">>, <<"y", "x">>, <<"x", "x", "x">>}
=============================================================================
