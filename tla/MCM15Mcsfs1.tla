---------------------------- MODULE MCM15Mcsfs1 ----------------------------
(* Two files in a data array of six bytes.                                 *)
EXTENDS M15Mcsfs1

MCBuffers == {<<"x">>, <<"y", "x">>}
=============================================================================
