---------------------------- MODULE MCPmmClient ----------------------------
(* Five frames of two bytes: two whole bytes of bitmap and a frame beyond; *)
(* two owners.                                                             *)
EXTENDS PmmClient

Reserved(b, l) == [base |-> b, length |-> l, usable |-> FALSE]
Usable(b, l)   == [base |-> b, length |-> l, usable |-> TRUE]

\* The map of kmain, scaled: low memory reserved, frames 1 and 2 usable.
KernelMap == <<Reserved(0, 2), Usable(2, 4)>>

AllMaps == {
  KernelMap,
  <<Usable(0, 10)>>,                    \* frame 0 is usable
  <<Usable(0, 6), Usable(4, 20)>>,      \* usable regions overlap, past the end
  <<Usable(3, 3), Reserved(2, 1)>>,     \* a region starts inside a page
  <<Usable(0, 4), Reserved(4, 2), Usable(6, 4)>>,   \* a hole
  << >> }

AllRanges == {<<0, 2>>, <<2, 5>>, <<6, 20>>, <<3, 1>>}
=============================================================================
